---------------------------- MODULE Spec2Model ----------------------------
(***************************************************************************)
(* react-native-nitro-audio-manager: the iOS session configuration         *)
(* validator (configureAudioSession) and the listener registries of the    *)
(* iOS and Android bindings, as state machines.                            *)
(*                                                                         *)
(* Token strings ("PlayAndRecord", "AllowBluetoothHFP", ...) are the       *)
(* strings that cross the bridge (src/src/types.ts); lower-camel strings   *)
(* ("playAndRecord", "allowBluetoothHFP", ...) are the AVAudioSession      *)
(* values of the Swift side.  The conversions between the two are the      *)
(* switch statements of the Swift source, modelled case by case.           *)
(***************************************************************************)
EXTENDS Integers, Sequences, FiniteSets, TLC

VARIABLES
  osVersion,             \* running iOS version, major * 100 + minor
  audioSession,          \* AVAudioSession.sharedInstance(): the OS-owned session state
  lastCall,              \* the configureAudioSession call of this behaviour, or NoCall
  platform,              \* "ios" or "android": which binding runs
  interruptionListeners, \* [Listener], in registration order
  routeChangeListeners,  \* [Listener], in registration order
  volumeListeners,       \* [Listener], in registration order
  nextListenerId,        \* the id the next add*Listener call hands out
  osObservers,           \* the OS-level hooks currently registered for this object
  isSessionActive,       \* iOS: the binding's own record of the activation state
  sessionActive,         \* iOS: whether the OS session really is active
  appState,              \* "foreground" or "background"
  systemVolume,          \* what the OS volume control was last set to
  lastOp,                \* the last operation or OS notification and what it did
  outputOverride,        \* iOS: the output port override in force, "none" or "speaker"
  sdkInt,                \* Android: Build.VERSION.SDK_INT
  focusGainType,         \* Android: the field of that name
  usage,                 \* Android: the field of that name
  contentType,           \* Android: the field of that name
  willPauseWhenDucked,   \* Android: the field of that name
  acceptsDelayedFocusGain, \* Android: the field of that name
  currentFocusRequest,   \* Android: the AudioFocusRequest built by activate(), or null
  hasAudioFocus,         \* Android: the binding's own record of holding audio focus
  mounted,               \* hook name -> the listener ids of its mounted instances
  fanOut,                \* the fan-out in progress, or NoFanOut
  promises               \* iOS: the activate()/deactivate() bodies in flight

configVars == <<osVersion, audioSession, lastCall>>

listenerVars == <<platform, interruptionListeners, routeChangeListeners, volumeListeners,
                  nextListenerId, osObservers, isSessionActive, sessionActive>>

lifecycleVars == <<appState, systemVolume, lastOp>>

focusConfigVars == <<sdkInt, focusGainType, usage, contentType, willPauseWhenDucked,
                     acceptsDelayedFocusGain>>

focusVars == <<focusConfigVars, currentFocusRequest, hasAudioFocus>>

hookVars == <<outputOverride, mounted, fanOut, promises>>

laterVars == <<focusVars, hookVars>>

vars == <<osVersion, audioSession, lastCall, platform, interruptionListeners,
          routeChangeListeners, volumeListeners, nextListenerId, osObservers,
          isSessionActive, sessionActive, appState, systemVolume, lastOp,
          laterVars>>

(***************************************************************************)
(* Bounds of the model.                                                    *)
(***************************************************************************)
\* longest categoryOptions array tried with the preferences left at their defaults
MaxOptions == 2

\* add*Listener calls made in one behaviour
MaxListeners == 3

\* most activate()/deactivate() bodies in flight at once
MaxPromises == 2

(***************************************************************************)
(* #available thresholds of the Swift source.                              *)
(***************************************************************************)
iOS16_0 == 1600
iOS17_0 == 1700
iOS18_2 == 1802

\* one version below each threshold, and one at or above all of them
OSVersions == {1500, 1600, 1700, 1802}

(***************************************************************************)
(* Tokens of src/src/types.ts.                                             *)
(***************************************************************************)
AudioSessionCategory ==
  {"Ambient", "SoloAmbient", "Playback", "Record", "PlayAndRecord", "MultiRoute"}

AudioSessionMode ==
  {"Default", "VoiceChat", "VideoChat", "GameChat", "VideoRecording",
   "Measurement", "MoviePlayback", "SpokenAudio", "VoicePrompt"}

AudioSessionRouteSharingPolicy ==
  {"Default", "LongFormAudio", "LongFormVideo", "Independent"}

AudioSessionCategoryOptions ==
  {"MixWithOthers", "DuckOthers", "InterruptSpokenAudioAndMixWithOthers",
   "AllowBluetoothHFP", "AllowBluetoothA2DP", "AllowAirPlay",
   "DefaultToSpeaker", "OverrideMutedMicrophoneInterruption"}

\* category -> modes the typings allow for it
AudioSessionCompatibleModes(categoryName) ==
  CASE categoryName = "Ambient"       -> {"Default", "SpokenAudio"}
    [] categoryName = "SoloAmbient"   -> {"Default", "SpokenAudio"}
    [] categoryName = "Playback"      -> {"Default", "MoviePlayback", "SpokenAudio", "Measurement"}
    [] categoryName = "Record"        -> {"Default", "VideoRecording", "VideoChat",
                                          "Measurement", "SpokenAudio"}
    [] categoryName = "PlayAndRecord" -> {"Default", "Measurement", "SpokenAudio", "VoiceChat",
                                          "VideoChat", "GameChat", "VideoRecording", "VoicePrompt"}
    [] categoryName = "MultiRoute"    -> {"Default", "SpokenAudio"}
    [] OTHER                          -> {}

\* category -> options the typings allow for it
AudioSessionCompatibleCategoryOptions(categoryName) ==
  CASE categoryName = "Ambient"       -> {"MixWithOthers"}
    [] categoryName = "SoloAmbient"   -> {}
    [] categoryName = "Playback"      -> {"MixWithOthers", "DuckOthers",
                                          "InterruptSpokenAudioAndMixWithOthers"}
    [] categoryName = "Record"        -> {"AllowBluetoothHFP"}
    [] categoryName = "PlayAndRecord" -> AudioSessionCategoryOptions
    [] categoryName = "MultiRoute"    -> {"MixWithOthers", "DuckOthers",
                                          "InterruptSpokenAudioAndMixWithOthers"}
    [] OTHER                          -> {}

\* EchoCancelledInputCompatibliteCategories: the categories typed `true`
EchoCancelledInputCompatibliteCategories == {"PlayAndRecord"}

(***************************************************************************)
(* Warnings and errors are (name, message) pairs; the message is kept up   *)
(* to its interpolated part.                                               *)
(***************************************************************************)
AudioSessionWarning(name, message) == [name |-> name, message |-> message]

NoError == "OK"

(***************************************************************************)
(* configureAudioSession, stage 1: the category switch.                    *)
(***************************************************************************)
resolveCategory(categoryName) ==
  CASE categoryName = "Ambient"       -> [error |-> NoError, value |-> "ambient"]
    [] categoryName = "SoloAmbient"   -> [error |-> NoError, value |-> "soloAmbient"]
    [] categoryName = "Playback"      -> [error |-> NoError, value |-> "playback"]
    [] categoryName = "Record"        -> [error |-> NoError, value |-> "record"]
    [] categoryName = "PlayAndRecord" -> [error |-> NoError, value |-> "playAndRecord"]
    [] categoryName = "MultiRoute"    -> [error |-> NoError, value |-> "multiRoute"]
    [] OTHER                          -> [error |-> "INVALID_CATEGORY", value |-> "none"]

(***************************************************************************)
(* Stage 2: the mode switch.  It has no case for "VoicePrompt".            *)
(***************************************************************************)
resolveMode(modeName) ==
  CASE modeName = "Default"        -> [error |-> NoError, value |-> "default"]
    [] modeName = "VoiceChat"      -> [error |-> NoError, value |-> "voiceChat"]
    [] modeName = "VideoChat"      -> [error |-> NoError, value |-> "videoChat"]
    [] modeName = "GameChat"       -> [error |-> NoError, value |-> "gameChat"]
    [] modeName = "VideoRecording" -> [error |-> NoError, value |-> "videoRecording"]
    [] modeName = "Measurement"    -> [error |-> NoError, value |-> "measurement"]
    [] modeName = "MoviePlayback"  -> [error |-> NoError, value |-> "moviePlayback"]
    [] modeName = "SpokenAudio"    -> [error |-> NoError, value |-> "spokenAudio"]
    [] OTHER                       -> [error |-> "INVALID_MODE", value |-> "none"]

(***************************************************************************)
(* The policy switch: unknown names fall back to .default, no error.       *)
(***************************************************************************)
resolvePolicy(policyName) ==
  CASE policyName = "LongFormAudio" -> "longFormAudio"
    [] policyName = "LongFormVideo" -> "longFormVideo"
    [] policyName = "Independent"   -> "independent"
    [] OTHER                        -> "default"

(***************************************************************************)
(* Stage 3: one iteration of `for optionName in optionsArray`.  The result *)
(* is the error thrown (or NoError), the AVAudioSession.CategoryOptions    *)
(* members inserted, and the warnings handed to warningCallback.           *)
(***************************************************************************)
optionAccepted(member) == [error |-> NoError, insert |-> {member}, warnings |-> <<>>]

optionThrows(name) == [error |-> name, insert |-> {}, warnings |-> <<>>]

\* faulty variant of the case below: the option is inserted whatever the category
allowBluetoothA2DPAlwaysInserted(category) == optionAccepted("allowBluetoothA2DP")

\* case "AllowBluetoothA2DP": inserted for playAndRecord, implied (a warning) for
\* playback, soloAmbient and ambient, an error elsewhere
allowBluetoothA2DP(category) ==
  IF category = "playAndRecord"
  THEN optionAccepted("allowBluetoothA2DP")
  ELSE IF category \in {"playback", "soloAmbient", "ambient"}
  THEN [error |-> NoError, insert |-> {},
        warnings |-> <<AudioSessionWarning("OPTION_NOT_APPLIED",
                         "AllowBluetoothA2DP is applied by default for category")>>]
  ELSE optionThrows("UNSUPPORTED_CATEGORY_OPTION")

optionCase(category, optionName, osv) ==
  CASE optionName = "MixWithOthers" ->
         IF category \in {"playAndRecord", "playback", "multiRoute", "ambient"}
         THEN optionAccepted("mixWithOthers")
         ELSE optionThrows("UNSUPPORTED_CATEGORY_OPTION")
    [] optionName = "AllowBluetooth" ->
         IF category \in {"playAndRecord", "record"}
         THEN optionAccepted("allowBluetoothHFP")
         ELSE optionThrows("UNSUPPORTED_CATEGORY_OPTION")
    [] optionName = "AllowBluetoothA2DP" -> allowBluetoothA2DP(category)
    [] optionName = "AllowAirPlay" ->
         IF category = "playAndRecord"
         THEN optionAccepted("allowAirPlay")
         ELSE optionThrows("UNSUPPORTED_CATEGORY_OPTION")
    [] optionName = "DuckOthers" ->
         IF category \in {"playAndRecord", "playback", "multiRoute"}
         THEN optionAccepted("duckOthers")
         ELSE optionThrows("UNSUPPORTED_CATEGORY_OPTION")
    [] optionName = "DefaultToSpeaker" ->
         IF category = "playAndRecord"
         THEN optionAccepted("defaultToSpeaker")
         ELSE optionThrows("UNSUPPORTED_CATEGORY_OPTION")
    [] optionName = "InterruptSpokenAudioAndMixWithOthers" ->
         IF category \in {"playAndRecord", "playback", "multiRoute"}
         THEN optionAccepted("interruptSpokenAudioAndMixWithOthers")
         ELSE optionThrows("UNSUPPORTED_CATEGORY_OPTION")
    [] optionName = "OverrideMutedMicrophoneInterruption" ->
         IF osv >= iOS16_0 /\ category \in {"playAndRecord", "record"}
         THEN optionAccepted("overrideMutedMicrophoneInterruption")
         ELSE optionThrows("UNSUPPORTED_CATEGORY_OPTION")
    [] OTHER -> optionThrows("INVALID_CATEGORY_OPTION")

(***************************************************************************)
(* The whole option loop: options and warnings accumulate in list order;   *)
(* the first throw ends the loop (and the call), the warnings already      *)
(* delivered stay delivered.                                               *)
(***************************************************************************)
RECURSIVE optionLoop(_, _, _, _)
optionLoop(category, optionsArray, osv, acc) ==
  IF optionsArray = <<>> THEN acc
  ELSE LET r == optionCase(category, Head(optionsArray), osv) IN
       IF r.error # NoError
       THEN [acc EXCEPT !.error = r.error]
       ELSE optionLoop(category, Tail(optionsArray), osv,
                       [error    |-> NoError,
                        options  |-> acc.options \cup r.insert,
                        warnings |-> acc.warnings \o r.warnings])

\* A variant with a stage that checks the mode against the category's legal modes.
validateConfigurationWithLegalModeCheck(args, osv) ==
  LET c == resolveCategory(args.category)
      m == resolveMode(args.mode)
      o == optionLoop(c.value, args.categoryOptions, osv,
                      [error |-> NoError, options |-> {}, warnings |-> <<>>])
      failed(e, w) == [error |-> e, category |-> c.value, mode |-> m.value,
                       policy |-> "default", options |-> {}, warnings |-> w]
  IN  IF c.error # NoError THEN failed(c.error, <<>>)
      ELSE IF m.error # NoError THEN failed(m.error, <<>>)
      ELSE IF args.mode \notin AudioSessionCompatibleModes(args.category)
      THEN failed("INVALID_MODE", <<>>)
      ELSE [error |-> o.error, category |-> c.value, mode |-> m.value,
            policy |-> resolvePolicy(args.policy), options |-> o.options,
            warnings |-> o.warnings]

\* A variant that resolves the mode token before the category token.
validateConfigurationModeFirst(args, osv) ==
  LET c == resolveCategory(args.category)
      m == resolveMode(args.mode)
      o == optionLoop(c.value, args.categoryOptions, osv,
                      [error |-> NoError, options |-> {}, warnings |-> <<>>])
      failed(e, w) == [error |-> e, category |-> c.value, mode |-> m.value,
                       policy |-> "default", options |-> {}, warnings |-> w]
  IN  IF m.error # NoError THEN failed(m.error, <<>>)
      ELSE IF c.error # NoError THEN failed(c.error, <<>>)
      ELSE [error |-> o.error, category |-> c.value, mode |-> m.value,
            policy |-> resolvePolicy(args.policy), options |-> o.options,
            warnings |-> o.warnings]

(***************************************************************************)
(* Stages 1-3 together: everything configureAudioSession does before its   *)
(* first native call.                                                      *)
(***************************************************************************)
validateConfiguration(args, osv) ==
  LET c == resolveCategory(args.category)
      m == resolveMode(args.mode)
      o == optionLoop(c.value, args.categoryOptions, osv,
                      [error |-> NoError, options |-> {}, warnings |-> <<>>])
      failed(e, w) == [error |-> e, category |-> c.value, mode |-> m.value,
                       policy |-> "default", options |-> {}, warnings |-> w]
  IN  IF c.error # NoError THEN failed(c.error, <<>>)
      ELSE IF m.error # NoError THEN failed(m.error, <<>>)
      ELSE [error |-> o.error, category |-> c.value, mode |-> m.value,
            policy |-> resolvePolicy(args.policy), options |-> o.options,
            warnings |-> o.warnings]

(***************************************************************************)
(* The native calls.  `st` carries the session, the warnings delivered so  *)
(* far and the log of native calls made; `threw` is what the OS answered.  *)
(* A call that throws leaves the session as it was.                        *)
(***************************************************************************)
nativeCall(fn, arg, threw) == [fn |-> fn, arg |-> arg, threw |-> threw]

warn(st, name, message) ==
  [st EXCEPT !.warnings = Append(@, AudioSessionWarning(name, message))]

\* try audioSession.setCategory(category, mode:, policy:, options:)
setCategory(st, category, mode, policy, options, threw) ==
  [session     |-> IF threw THEN st.session
                   ELSE [st.session EXCEPT !.category = category,
                                           !.mode = mode,
                                           !.routeSharingPolicy = policy,
                                           !.categoryOptions = options],
   warnings    |-> st.warnings,
   nativeCalls |-> Append(st.nativeCalls,
                          nativeCall("setCategory",
                                     [category |-> category, mode |-> mode,
                                      policy |-> policy, options |-> options],
                                     threw))]

\* do { try audioSession.setPrefersNoInterruptionsFromSystemAlerts(v) } catch { warn }
setPrefersNoInterruptionsFromSystemAlerts(st, value, threw) ==
  LET called == [st EXCEPT
        !.nativeCalls = Append(@, nativeCall("setPrefersNoInterruptionsFromSystemAlerts",
                                             [value |-> value], threw))]
  IN  IF threw
      THEN warn(called, "PREFERENCE_FAILURE_NO_INTERRUPTIONS",
                "Failed to set prefersNoInterruptionsFromSystemAlerts")
      ELSE [called EXCEPT !.session.prefersNoInterruptionsFromSystemAlerts = value]

\* do { try audioSession.setAllowHapticsAndSystemSoundsDuringRecording(v) } catch { warn }
setAllowHapticsAndSystemSoundsDuringRecording(st, value, threw) ==
  LET called == [st EXCEPT
        !.nativeCalls = Append(@, nativeCall("setAllowHapticsAndSystemSoundsDuringRecording",
                                             [value |-> value], threw))]
  IN  IF threw
      THEN warn(called, "PREFERENCE_FAILURE_HAPTICS",
                "Failed to set allowHapticsAndSystemSoundsDuringRecording")
      ELSE [called EXCEPT !.session.allowHapticsAndSystemSoundsDuringRecording = value]

\* if #available(iOS 17.0, *) { do { try set... } catch { warn } } else { warn }
setPrefersInterruptionOnRouteDisconnect(st, osv, value, threw) ==
  IF osv >= iOS17_0
  THEN LET called == [st EXCEPT
             !.nativeCalls = Append(@, nativeCall("setPrefersInterruptionOnRouteDisconnect",
                                                  [value |-> value], threw))]
       IN  IF threw
           THEN warn(called, "PREFERENCE_FAILURE_ROUTE_DISCONNECT",
                     "Failed to set prefersInterruptionOnRouteDisconnect")
           ELSE [called EXCEPT !.session.prefersInterruptionOnRouteDisconnect = value]
  ELSE warn(st, "PREFERENCE_FAILURE_ROUTE_DISCONNECT",
            "Setting prefersInterruptionOnRouteDisconnect requires iOS 17 or later")

\* faulty variant of the chain below: the mode gate is missing
setPrefersEchoCancelledInputAnyMode(st, osv, category, mode, value, available, threw) ==
  IF ~value THEN st
  ELSE IF osv < iOS18_2
  THEN warn(st, "PREFERENCE_WARNING_ECHO_CANCELLATION",
            "Setting prefersEchoCancelledInput requires iOS 18.2 or later")
  ELSE IF category # "playAndRecord"
  THEN warn(st, "PREFERENCE_WARNING_ECHO_CANCELLATION",
            "Setting prefersEchoCancelledInput requires category PlayAndRecord")
  ELSE [st EXCEPT
          !.nativeCalls = Append(@, nativeCall("setPrefersEchoCancelledInput",
                                               [value |-> value], FALSE)),
          !.session.prefersEchoCancelledInput = value]

\* if prefersEchoCancelledInput { ... }: the chain of gates before the setter
setPrefersEchoCancelledInput(st, osv, category, mode, value, available, threw) ==
  IF ~value THEN st
  ELSE IF osv < iOS18_2
  THEN warn(st, "PREFERENCE_WARNING_ECHO_CANCELLATION",
            "Setting prefersEchoCancelledInput requires iOS 18.2 or later")
  ELSE IF category # "playAndRecord"
  THEN warn(st, "PREFERENCE_WARNING_ECHO_CANCELLATION",
            "Setting prefersEchoCancelledInput requires category PlayAndRecord")
  ELSE IF mode # "default"
  THEN warn(st, "PREFERENCE_WARNING_ECHO_CANCELLATION",
            "Setting prefersEchoCancelledInput requires mode Default")
  ELSE LET read == [st EXCEPT
             !.nativeCalls = Append(@, nativeCall("isEchoCancelledInputAvailable",
                                                  [value |-> available], FALSE))]
       IN  IF ~available
           THEN warn(read, "PREFERENCE_WARNING_ECHO_CANCELLATION",
                     "Setting prefersEchoCancelledInput requires hardware support")
           ELSE LET called == [read EXCEPT
                      !.nativeCalls = Append(@, nativeCall("setPrefersEchoCancelledInput",
                                                           [value |-> value], threw))]
                IN  IF threw
                    THEN warn(called, "PREFERENCE_WARNING_ECHO_CANCELLATION",
                              "Failed to set prefersEchoCancelledInput")
                    ELSE [called EXCEPT !.session.prefersEchoCancelledInput = value]

(***************************************************************************)
(* Stage 5: the four preferences, in source order.                         *)
(***************************************************************************)
\* faulty variant: the first setter that throws ends the stage
applyPreferencesUntilFailure(st, osv, v, args, env) ==
  LET a == setPrefersNoInterruptionsFromSystemAlerts(
             st, args.prefersNoInterruptionFromSystemAlerts, env.noInterruptionsThrows)
      b == setAllowHapticsAndSystemSoundsDuringRecording(
             a, args.allowHapticsAndSystemSoundsDuringRecording, env.hapticsThrows)
      c == setPrefersInterruptionOnRouteDisconnect(
             b, osv, args.prefersInterruptionOnRouteDisconnect, env.routeDisconnectThrows)
  IN  IF env.noInterruptionsThrows THEN a
      ELSE IF env.hapticsThrows THEN b
      ELSE IF env.routeDisconnectThrows THEN c
      ELSE setPrefersEchoCancelledInput(c, osv, v.category, v.mode,
                                        args.prefersEchoCancelledInput,
                                        env.echoAvailable, env.echoThrows)

applyPreferences(st, osv, v, args, env) ==
  LET a == setPrefersNoInterruptionsFromSystemAlerts(
             st, args.prefersNoInterruptionFromSystemAlerts, env.noInterruptionsThrows)
      b == setAllowHapticsAndSystemSoundsDuringRecording(
             a, args.allowHapticsAndSystemSoundsDuringRecording, env.hapticsThrows)
      c == setPrefersInterruptionOnRouteDisconnect(
             b, osv, args.prefersInterruptionOnRouteDisconnect, env.routeDisconnectThrows)
  IN  setPrefersEchoCancelledInput(c, osv, v.category, v.mode,
                                   args.prefersEchoCancelledInput,
                                   env.echoAvailable, env.echoThrows)

(***************************************************************************)
(* configureAudioSession as a whole: what the call returns or throws, the  *)
(* warnings it delivered, the native calls it made, the session it left.   *)
(***************************************************************************)
callOutcome(error, st) ==
  [error |-> error, warnings |-> st.warnings,
   nativeCalls |-> st.nativeCalls, session |-> st.session]

\* faulty variant: the preferences are applied before the arguments are validated
configureAudioSessionPreferencesFirst(session, osv, args, env) ==
  LET v   == validateConfiguration(args, osv)
      st0 == applyPreferences([session |-> session, warnings |-> <<>>,
                               nativeCalls |-> <<>>], osv, v, args, env)
      st1 == [st0 EXCEPT !.warnings = @ \o v.warnings]
      st2 == setCategory(st1, v.category, v.mode, v.policy, v.options,
                         env.setCategoryThrows)
  IN  IF v.error # NoError THEN callOutcome(v.error, st1)
      ELSE IF env.setCategoryThrows THEN callOutcome("INVALID_CONFIGURATION", st2)
      ELSE callOutcome(NoError, st2)

\* faulty variant: a rejected setCategory is rethrown only after the preferences
configureAudioSessionPastRejection(session, osv, args, env) ==
  LET v   == validateConfiguration(args, osv)
      st0 == [session |-> session, warnings |-> v.warnings, nativeCalls |-> <<>>]
      st1 == setCategory(st0, v.category, v.mode, v.policy, v.options,
                         env.setCategoryThrows)
      st2 == applyPreferences(st1, osv, v, args, env)
  IN  IF v.error # NoError THEN callOutcome(v.error, st0)
      ELSE IF env.setCategoryThrows
      THEN callOutcome("INVALID_CONFIGURATION", [st2 EXCEPT !.session = session])
      ELSE callOutcome(NoError, st2)

configureAudioSession(session, osv, args, env) ==
  LET v   == validateConfiguration(args, osv)
      st0 == [session |-> session, warnings |-> v.warnings, nativeCalls |-> <<>>]
      st1 == setCategory(st0, v.category, v.mode, v.policy, v.options,
                         env.setCategoryThrows)
  IN  IF v.error # NoError THEN callOutcome(v.error, st0)
      ELSE IF env.setCategoryThrows THEN callOutcome("INVALID_CONFIGURATION", st1)
      ELSE callOutcome(NoError, applyPreferences(st1, osv, v, args, env))

(***************************************************************************)
(* getAudioSessionStatusIOS: the session read back as bridge tokens.       *)
(***************************************************************************)
readableCategory(category) ==
  IF category = "ambient" THEN "Ambient"
  ELSE IF category = "soloAmbient" THEN "SoloAmbient"
  ELSE IF category = "playback" THEN "Playback"
  ELSE IF category = "record" THEN "Record"
  ELSE IF category = "playAndRecord" THEN "PlayAndRecord"
  ELSE "MultiRoute"

readableMode(mode) ==
  IF mode = "default" THEN "Default"
  ELSE IF mode = "voiceChat" THEN "VoiceChat"
  ELSE IF mode = "videoChat" THEN "VideoChat"
  ELSE IF mode = "gameChat" THEN "GameChat"
  ELSE IF mode = "videoRecording" THEN "VideoRecording"
  ELSE IF mode = "measurement" THEN "Measurement"
  ELSE IF mode = "moviePlayback" THEN "MoviePlayback"
  ELSE IF mode = "spokenAudio" THEN "SpokenAudio"
  ELSE "VoicePrompt"

readableRouteSharingPolicy(routeSharingPolicy) ==
  IF routeSharingPolicy = "default" THEN "Default"
  ELSE IF routeSharingPolicy = "longFormVideo" THEN "LongFormVideo"
  ELSE IF routeSharingPolicy = "longFormAudio" THEN "LongFormAudio"
  ELSE "Independent"

readableCategoryOptions(options) ==
  LET item(member, token) == IF member \in options THEN <<token>> ELSE <<>>
  IN  item("mixWithOthers", "MixWithOthers")
      \o item("duckOthers", "DuckOthers")
      \o item("allowBluetoothHFP", "AllowBluetoothHFP")
      \o item("allowBluetoothA2DP", "AllowBluetoothA2DP")
      \o item("allowAirPlay", "AllowAirPlay")
      \o item("defaultToSpeaker", "DefaultToSpeaker")
      \o item("interruptSpokenAudioAndMixWithOthers", "InterruptSpokenAudioAndMixWithOthers")
      \o item("overrideMutedMicrophoneInterruption", "OverrideMutedMicrophoneInterruption")

getAudioSessionStatusIOS(session, osv) ==
  [category           |-> readableCategory(session.category),
   mode               |-> readableMode(session.mode),
   categoryOptions    |-> readableCategoryOptions(session.categoryOptions),
   routeSharingPolicy |-> readableRouteSharingPolicy(session.routeSharingPolicy),
   allowHapticsAndSystemSoundsDuringRecording |->
     session.allowHapticsAndSystemSoundsDuringRecording,
   prefersNoInterruptionsFromSystemAlerts |->
     session.prefersNoInterruptionsFromSystemAlerts,
   prefersInterruptionOnRouteDisconnect |->
     IF osv >= iOS17_0 THEN session.prefersInterruptionOnRouteDisconnect ELSE FALSE,
   prefersEchoCancelledInput |->
     IF osv >= iOS18_2 THEN session.prefersEchoCancelledInput ELSE FALSE]

(***************************************************************************)
(* What the OS can answer to the native calls of one call.  setCategory    *)
(* accepts every category/mode pair of the compatibility table and may     *)
(* accept or reject any other; every preference setter may throw; the      *)
(* hardware may or may not offer echo-cancelled input.  Answers to calls   *)
(* the code does not reach are left FALSE.                                 *)
(***************************************************************************)
QuietOS ==
  [setCategoryThrows |-> FALSE, noInterruptionsThrows |-> FALSE,
   hapticsThrows |-> FALSE, routeDisconnectThrows |-> FALSE,
   echoAvailable |-> FALSE, echoThrows |-> FALSE]

NativeOutcomes(osv, args) ==
  LET v == validateConfiguration(args, osv)
      maybe(reached) == IF reached THEN BOOLEAN ELSE {FALSE}
      echoReached == /\ args.prefersEchoCancelledInput
                     /\ osv >= iOS18_2
                     /\ v.category = "playAndRecord"
                     /\ v.mode = "default"
  IN  IF v.error # NoError THEN {QuietOS}
      ELSE {e \in [setCategoryThrows     : maybe(args.mode \notin
                                                  AudioSessionCompatibleModes(args.category)),
                   noInterruptionsThrows : BOOLEAN,
                   hapticsThrows         : BOOLEAN,
                   routeDisconnectThrows : maybe(osv >= iOS17_0),
                   echoAvailable         : maybe(echoReached),
                   echoThrows            : maybe(echoReached)] :
              /\ e.setCategoryThrows => e = [QuietOS EXCEPT !.setCategoryThrows = TRUE]
              /\ e.echoThrows => e.echoAvailable}

(***************************************************************************)
(* Arguments tried.  Names that are no token of types.ts stand for what    *)
(* an untyped caller can pass through the string-typed bridge;             *)
(* "AllowBluetooth" is the one option name outside types.ts that the       *)
(* Swift switch has a case for.                                            *)
(***************************************************************************)
CategoryNames == AudioSessionCategory \cup {"Bogus"}

ModeNames == AudioSessionMode \cup {"Bogus"}

OptionNames == AudioSessionCategoryOptions \cup {"AllowBluetooth", "Bogus"}

OptionArrays(n) == UNION {[1..k -> OptionNames] : k \in 0..n}

\* every category, mode and option array, preferences as configureAudio defaults them
ValidationArgs ==
  [category : CategoryNames, mode : ModeNames, policy : {"Default"},
   categoryOptions : OptionArrays(MaxOptions),
   prefersNoInterruptionFromSystemAlerts : {FALSE},
   prefersInterruptionOnRouteDisconnect : {FALSE},
   allowHapticsAndSystemSoundsDuringRecording : {FALSE},
   prefersEchoCancelledInput : {FALSE}]

\* every category, mode and preference vector, with and without the implied option
PreferenceArgs ==
  [category : CategoryNames, mode : ModeNames, policy : {"Default", "LongFormAudio"},
   categoryOptions : {<<>>, <<"AllowBluetoothA2DP">>},
   prefersNoInterruptionFromSystemAlerts : BOOLEAN,
   prefersInterruptionOnRouteDisconnect : BOOLEAN,
   allowHapticsAndSystemSoundsDuringRecording : BOOLEAN,
   prefersEchoCancelledInput : BOOLEAN]

ConfigureArgs == ValidationArgs \cup PreferenceArgs

(***************************************************************************)
(* State.                                                                  *)
(***************************************************************************)
\* AVAudioSession's state in a freshly launched app
SessionAtLaunch ==
  [category |-> "soloAmbient", mode |-> "default", categoryOptions |-> {},
   routeSharingPolicy |-> "default",
   prefersNoInterruptionsFromSystemAlerts |-> FALSE,
   allowHapticsAndSystemSoundsDuringRecording |-> FALSE,
   prefersInterruptionOnRouteDisconnect |-> FALSE,
   prefersEchoCancelledInput |-> FALSE]

\* a session another part of the app configured before this call
SessionConfiguredEarlier ==
  [category |-> "playAndRecord", mode |-> "voiceChat",
   categoryOptions |-> {"allowBluetoothHFP", "defaultToSpeaker"},
   routeSharingPolicy |-> "default",
   prefersNoInterruptionsFromSystemAlerts |-> TRUE,
   allowHapticsAndSystemSoundsDuringRecording |-> TRUE,
   prefersInterruptionOnRouteDisconnect |-> FALSE,
   prefersEchoCancelledInput |-> FALSE]

NoCall ==
  [called |-> FALSE,
   args |-> [category |-> "", mode |-> "", policy |-> "", categoryOptions |-> <<>>,
             prefersNoInterruptionFromSystemAlerts |-> FALSE,
             prefersInterruptionOnRouteDisconnect |-> FALSE,
             allowHapticsAndSystemSoundsDuringRecording |-> FALSE,
             prefersEchoCancelledInput |-> FALSE],
   error |-> NoError, warnings |-> <<>>, nativeCalls |-> <<>>]

(***************************************************************************)
(* Numbers that cross the bridge are JS numbers / Doubles: a finite value, *)
(* kept in tenths, or NaN.                                                 *)
(***************************************************************************)
Finite(tenths) == [kind |-> "finite", tenths |-> tenths]

NaN == [kind |-> "NaN", tenths |-> 0]

\* an event handed to listeners; fields a channel does not use stay "none"
NoEvent == [type |-> "none", reason |-> "none", value |-> NaN]

\* Android: currentFocusRequest == null; api names the requestAudioFocus overload
NoFocusRequest ==
  [api |-> "none", focusGain |-> "none", usage |-> "none", contentType |-> "none",
   willPauseWhenDucked |-> FALSE, acceptsDelayedFocusGain |-> FALSE]

\* no configureAudioManager arguments
NoFocusArgs ==
  [focusGain |-> "none", usage |-> "none", contentType |-> "none",
   willPauseWhenDucked |-> FALSE, acceptsDelayedFocusGain |-> FALSE]

\* lastOp before any operation
NoOp ==
  [op |-> "none", channel |-> "none", id |-> -1, event |-> NoEvent, invoked |-> <<>>,
   outcome |-> "none", error |-> NoError, warnings |-> <<>>, nativeCalls |-> <<>>,
   value |-> NaN, setpoint |-> NaN, fallback |-> FALSE, args |-> NoFocusArgs,
   request |-> NoFocusRequest]

\* iOS init(): registerListeners() adds the four NotificationCenter observers
registerListeners ==
  {"interruptionNotification", "routeChangeNotification",
   "willEnterForegroundNotification", "didEnterBackgroundNotification"}

\* the registries and hooks of a freshly constructed iOS object
NoListeners ==
  /\ platform = "ios"
  /\ interruptionListeners = <<>>
  /\ routeChangeListeners = <<>>
  /\ volumeListeners = <<>>
  /\ nextListenerId = 0
  /\ osObservers = registerListeners
  /\ isSessionActive = FALSE
  /\ sessionActive = FALSE
  /\ appState = "foreground"
  /\ systemVolume = Finite(5)
  /\ lastOp = NoOp

\* Build.VERSION_CODES.O
VERSION_CODES_O == 26

\* the Android fields as their declarations initialise them
FocusFieldDefaults ==
  /\ currentFocusRequest = NoFocusRequest
  /\ hasAudioFocus = FALSE
  /\ focusGainType = "AUDIOFOCUS_GAIN_TRANSIENT_MAY_DUCK"
  /\ usage = "USAGE_MEDIA"
  /\ contentType = "CONTENT_TYPE_MUSIC"
  /\ willPauseWhenDucked = TRUE
  /\ acceptsDelayedFocusGain = FALSE

\* the two hooks of hooks.tsx
Hooks == {"useVolume", "useIsHeadphonesConnected"}

\* no notification is being fanned out
NoFanOut == [channel |-> "none", event |-> NoEvent, arrived |-> <<>>, index |-> 0,
             invoked |-> <<>>, modified |-> FALSE]

\* nothing mounted, nothing in flight, no port override
NothingStarted ==
  /\ outputOverride = "none"
  /\ mounted = [hook \in Hooks |-> <<>>]
  /\ fanOut = NoFanOut
  /\ promises = <<>>

Init ==
  /\ osVersion \in OSVersions
  /\ audioSession \in {SessionAtLaunch, SessionConfiguredEarlier}
  /\ lastCall = NoCall
  /\ NoListeners
  /\ sdkInt = VERSION_CODES_O
  /\ FocusFieldDefaults
  /\ NothingStarted

(***************************************************************************)
(* One configureAudioSession call, start to return or throw.  Each         *)
(* behaviour observes a single call.                                       *)
(***************************************************************************)
CallConfigureAudioSession ==
  /\ ~lastCall.called
  /\ \E args \in ConfigureArgs :
       \E env \in NativeOutcomes(osVersion, args) :
         LET r == configureAudioSession(audioSession, osVersion, args, env)
         IN  /\ audioSession' = r.session
             /\ lastCall' = [called |-> TRUE, args |-> args, error |-> r.error,
                             warnings |-> r.warnings, nativeCalls |-> r.nativeCalls]
  /\ UNCHANGED osVersion
  /\ UNCHANGED listenerVars
  /\ UNCHANGED lifecycleVars
  /\ UNCHANGED laterVars

Next == CallConfigureAudioSession

Spec == Init /\ [][Next]_vars

(***************************************************************************)
(* The listener registries.  A Listener is (id, callback); the three lists *)
(* and the id counter are fields of the AudioManager object on both        *)
(* platforms.  osObservers names the OS-level hooks currently registered:  *)
(*   iOS      NotificationCenter observers by notification name, and       *)
(*            "outputVolume" while volumeObservation is non-nil;           *)
(*   Android  "focusCallback" (audio focus listener), "deviceCallback"     *)
(*            (AudioDeviceCallback), "volumeReceiver" (BroadcastReceiver). *)
(***************************************************************************)
Callbacks == {"A", "B"}

Listener(id, callback) == [id |-> id, callback |-> callback]

\* A variant that drops the listener and every listener registered before it.
removeAllUpTo(list, id) == SelectSeq(list, LAMBDA l : l.id > id)

\* list.removeAll { $0.id == id }
removeAll(list, id) == SelectSeq(list, LAMBDA l : l.id # id)

ListenerInit ==
  /\ osVersion = iOS18_2
  /\ audioSession = SessionAtLaunch
  /\ lastCall = NoCall
  /\ platform \in {"ios", "android"}
  /\ interruptionListeners = <<>>
  /\ routeChangeListeners = <<>>
  /\ volumeListeners = <<>>
  /\ nextListenerId = 0
  /\ osObservers = IF platform = "ios" THEN registerListeners ELSE {}
  /\ isSessionActive = FALSE
  /\ sessionActive = FALSE
  /\ appState = "foreground"
  /\ systemVolume = Finite(5)
  /\ lastOp = NoOp
  /\ sdkInt = VERSION_CODES_O
  /\ FocusFieldDefaults
  /\ NothingStarted

\* Android: am.requestAudioFocus(focusCallback, ...) on the first listener; iOS: append only
addInterruptionListener(callback) ==
  /\ nextListenerId < MaxListeners
  /\ osObservers' = IF platform = "android" /\ interruptionListeners = <<>>
                    THEN osObservers \cup {"focusCallback"}
                    ELSE osObservers
  /\ interruptionListeners' = Append(interruptionListeners,
                                     Listener(nextListenerId, callback))
  /\ nextListenerId' = nextListenerId + 1
  /\ lastOp' = [NoOp EXCEPT !.op = "addListener", !.channel = "audioInterruption", !.id = nextListenerId]
  /\ UNCHANGED <<appState, systemVolume>>
  /\ UNCHANGED <<routeChangeListeners, volumeListeners, isSessionActive, sessionActive,
                 platform, audioSession, osVersion, lastCall>>

\* both platforms: the list shrinks, no focus listener or observer is released
removeInterruptionListener(id) ==
  /\ interruptionListeners' = removeAll(interruptionListeners, id)
  /\ lastOp' = [NoOp EXCEPT !.op = "removeListener", !.channel = "audioInterruption", !.id = id]
  /\ UNCHANGED <<appState, systemVolume>>
  /\ UNCHANGED <<osObservers, nextListenerId, routeChangeListeners, volumeListeners,
                 isSessionActive, sessionActive, platform, audioSession, osVersion,
                 lastCall>>

\* A variant that numbers the route-change listeners per channel (id = position in the
\* channel's own list) and leaves the shared counter alone.
addRouteChangeListenerPerChannelIds(callback) ==
  /\ Len(routeChangeListeners) < MaxListeners
  /\ osObservers' = IF platform = "android" /\ routeChangeListeners = <<>>
                    THEN osObservers \cup {"deviceCallback"}
                    ELSE osObservers
  /\ routeChangeListeners' = Append(routeChangeListeners,
                                    Listener(Len(routeChangeListeners), callback))
  /\ lastOp' = [NoOp EXCEPT !.op = "addListener", !.channel = "routeChange",
                            !.id = Len(routeChangeListeners)]
  /\ UNCHANGED <<appState, systemVolume, nextListenerId>>
  /\ UNCHANGED <<interruptionListeners, volumeListeners, isSessionActive, sessionActive,
                 platform, audioSession, osVersion, lastCall>>

\* Android: am.registerAudioDeviceCallback(deviceCallback) on the first listener
addRouteChangeListener(callback) ==
  /\ nextListenerId < MaxListeners
  /\ osObservers' = IF platform = "android" /\ routeChangeListeners = <<>>
                    THEN osObservers \cup {"deviceCallback"}
                    ELSE osObservers
  /\ routeChangeListeners' = Append(routeChangeListeners,
                                    Listener(nextListenerId, callback))
  /\ nextListenerId' = nextListenerId + 1
  /\ lastOp' = [NoOp EXCEPT !.op = "addListener", !.channel = "routeChange", !.id = nextListenerId]
  /\ UNCHANGED <<appState, systemVolume>>
  /\ UNCHANGED <<interruptionListeners, volumeListeners, isSessionActive, sessionActive,
                 platform, audioSession, osVersion, lastCall>>

\* Android: am.unregisterAudioDeviceCallback(deviceCallback) once the list is empty
removeRouteChangeListener(id) ==
  /\ routeChangeListeners' = removeAll(routeChangeListeners, id)
  /\ osObservers' = IF platform = "android" /\ routeChangeListeners' = <<>>
                    THEN osObservers \ {"deviceCallback"}
                    ELSE osObservers
  /\ lastOp' = [NoOp EXCEPT !.op = "removeListener", !.channel = "routeChange", !.id = id]
  /\ UNCHANGED <<appState, systemVolume>>
  /\ UNCHANGED <<nextListenerId, interruptionListeners, volumeListeners, isSessionActive,
                 sessionActive, platform, audioSession, osVersion, lastCall>>

\* iOS: try? setCategory(.ambient); try? setActive(true); isSessionActive = true when the
\* session is not recorded active, then the KVO observation if there is none.
\* Android: registerReceiver(VolumeReceiver()) on the first listener.
addVolumeListener(callback, setCategoryThrows, setActiveThrows) ==
  /\ nextListenerId < MaxListeners
  /\ IF platform = "ios" /\ ~isSessionActive
     THEN /\ audioSession' = IF setCategoryThrows THEN audioSession
                             ELSE [audioSession EXCEPT !.category = "ambient"]
          /\ sessionActive' = IF setActiveThrows THEN sessionActive ELSE TRUE
          /\ isSessionActive' = TRUE
     ELSE /\ setCategoryThrows = FALSE
          /\ setActiveThrows = FALSE
          /\ UNCHANGED <<audioSession, sessionActive, isSessionActive>>
  /\ lastOp' = [NoOp EXCEPT !.op = "addListener", !.channel = "volume", !.id = nextListenerId]
  /\ UNCHANGED <<appState, systemVolume>>
  /\ volumeListeners' = Append(volumeListeners, Listener(nextListenerId, callback))
  /\ nextListenerId' = nextListenerId + 1
  /\ osObservers' = IF platform = "ios"
                    THEN osObservers \cup {"outputVolume"}
                    ELSE IF volumeListeners = <<>>
                    THEN osObservers \cup {"volumeReceiver"}
                    ELSE osObservers
  /\ UNCHANGED <<interruptionListeners, routeChangeListeners, platform, osVersion, lastCall>>

\* iOS: volumeObservation?.invalidate(); Android: unregisterReceiver(volumeReceiver),
\* both once the list is empty
removeVolumeListener(id) ==
  /\ volumeListeners' = removeAll(volumeListeners, id)
  /\ osObservers' = IF volumeListeners' = <<>>
                    THEN osObservers \ {"outputVolume", "volumeReceiver"}
                    ELSE osObservers
  /\ lastOp' = [NoOp EXCEPT !.op = "removeListener", !.channel = "volume", !.id = id]
  /\ UNCHANGED <<appState, systemVolume>>
  /\ UNCHANGED <<nextListenerId, interruptionListeners, routeChangeListeners,
                 isSessionActive, sessionActive, platform, audioSession, osVersion,
                 lastCall>>

AddInterruptionListener ==
  /\ \E callback \in Callbacks : addInterruptionListener(callback)
  /\ UNCHANGED laterVars

RemoveInterruptionListener ==
  /\ \E id \in 0..(MaxListeners - 1) : removeInterruptionListener(id)
  /\ UNCHANGED laterVars

AddRouteChangeListener ==
  /\ \E callback \in Callbacks : addRouteChangeListener(callback)
  /\ UNCHANGED laterVars

RemoveRouteChangeListener ==
  /\ \E id \in 0..(MaxListeners - 1) : removeRouteChangeListener(id)
  /\ UNCHANGED laterVars

AddVolumeListener ==
  /\ \E callback \in Callbacks, setCategoryThrows \in BOOLEAN, setActiveThrows \in BOOLEAN :
       addVolumeListener(callback, setCategoryThrows, setActiveThrows)
  /\ UNCHANGED laterVars

RemoveVolumeListener ==
  /\ \E id \in 0..(MaxListeners - 1) : removeVolumeListener(id)
  /\ UNCHANGED laterVars

(***************************************************************************)
(* OS notifications.  The OS calls a hook only while it is registered.     *)
(* `invoked` lists the callback invocations the handler made, in order.    *)
(***************************************************************************)
\* list.forEach { $0.callback(ev) }
forEach(list, ev) ==
  [i \in DOMAIN list |-> [id |-> list[i].id, callback |-> list[i].callback, event |-> ev]]

notified(channel, ev, invoked) ==
  /\ lastOp' = [NoOp EXCEPT !.op = "notify", !.channel = channel, !.event = ev,
                            !.invoked = invoked]
  /\ UNCHANGED <<osVersion, audioSession, lastCall, listenerVars, appState, systemVolume>>

\* userInfo of AVAudioSession.interruptionNotification; "none" is an absent key.  The
\* reason key accompanies began interruptions.
InterruptionUserInfos ==
  {[type |-> "began", reason |-> "default"],
   [type |-> "began", reason |-> "builtInMicMuted"],
   [type |-> "ended", reason |-> "default"],
   [type |-> "ended", reason |-> "none"]}

readableInterruptionReason(reason, osv) ==
  IF reason = "builtInMicMuted" THEN "builtInMicMuted"
  ELSE IF osv >= iOS17_0 /\ reason = "routeDisconnected" THEN "routeDisconnected"
  ELSE "default"

\* iOS handleInterruption: guard let rawReason, rawType else { return }, then forEach
handleInterruption(userInfo) ==
  LET ev == [NoEvent EXCEPT
               !.type = IF userInfo.type = "began" THEN "began" ELSE "ended",
               !.reason = readableInterruptionReason(userInfo.reason, osVersion)]
  IN  IF userInfo.reason = "none" \/ userInfo.type = "none"
      THEN notified("audioInterruption", NoEvent, <<>>)
      ELSE notified("audioInterruption", ev, forEach(interruptionListeners, ev))

AudioFocusChanges ==
  {"AUDIOFOCUS_LOSS", "AUDIOFOCUS_LOSS_TRANSIENT", "AUDIOFOCUS_LOSS_TRANSIENT_CAN_DUCK",
   "AUDIOFOCUS_GAIN"}

\* Android focusCallback
focusCallback(focus) ==
  LET type == IF focus = "AUDIOFOCUS_GAIN" THEN "ended" ELSE "began"
      reason == IF focus \in {"AUDIOFOCUS_LOSS", "AUDIOFOCUS_LOSS_TRANSIENT",
                              "AUDIOFOCUS_LOSS_TRANSIENT_CAN_DUCK"}
                THEN "appWasSuspended" ELSE "default"
      ev == [NoEvent EXCEPT !.type = type, !.reason = reason]
  IN  /\ hasAudioFocus' = (type = "ended")
      /\ notified("audioInterruption", ev, forEach(interruptionListeners, ev))

\* Android: the OS reports a focus change to the registered focusCallback
FocusChanged ==
  /\ platform = "android"
  /\ "focusCallback" \in osObservers
  /\ \E focus \in AudioFocusChanges : focusCallback(focus)
  /\ UNCHANGED <<focusConfigVars, currentFocusRequest, hookVars>>

HandleInterruption ==
  \/ /\ platform = "ios"
     /\ "interruptionNotification" \in osObservers
     /\ \E userInfo \in InterruptionUserInfos : handleInterruption(userInfo)
     /\ UNCHANGED laterVars
  \/ FocusChanged

RouteChangeReasons == {"newDeviceAvailable", "oldDeviceUnavailable"}

\* iOS handleRouteChange (the reason key is always present); Android deviceCallback ->
\* dispatchRouteChange
handleRouteChange(reason) ==
  LET ev == [NoEvent EXCEPT !.reason = reason]
  IN  notified("routeChange", ev, forEach(routeChangeListeners, ev))

HandleRouteChange ==
  /\ IF platform = "ios" THEN "routeChangeNotification" \in osObservers
                         ELSE "deviceCallback" \in osObservers
  /\ \E reason \in RouteChangeReasons : handleRouteChange(reason)
  /\ UNCHANGED laterVars

\* iOS volumeObservation closure; Android VolumeReceiver.onReceive
volumeChanged(volume) ==
  LET ev == [NoEvent EXCEPT !.value = volume]
  IN  notified("volume", ev, forEach(volumeListeners, ev))

VolumeChanged ==
  /\ IF platform = "ios" THEN "outputVolume" \in osObservers
                         ELSE "volumeReceiver" \in osObservers
  /\ \E volume \in {Finite(0), Finite(10)} : volumeChanged(volume)
  /\ UNCHANGED laterVars

ListenerNext ==
  \/ AddInterruptionListener
  \/ RemoveInterruptionListener
  \/ AddRouteChangeListener
  \/ RemoveRouteChangeListener
  \/ AddVolumeListener
  \/ RemoveVolumeListener
  \/ HandleInterruption
  \/ HandleRouteChange
  \/ VolumeChanged

ListenerSpec == ListenerInit /\ [][ListenerNext]_vars

(***************************************************************************)
(* The iOS session lifecycle: activate, deactivate, the volume listeners   *)
(* that keep the session alive, and the app moving between foreground and  *)
(* background.  isSessionActive is the object's record; sessionActive is   *)
(* whether AVAudioSession is really active.  Every native call may throw,  *)
(* and a call that throws leaves the OS session as it was.  Each promise   *)
(* body runs as one step; lastOp.outcome is how the promise settled.       *)
(***************************************************************************)
sessionOp(op, outcome, error, warnings, nativeCalls) ==
  [NoOp EXCEPT !.op = op, !.outcome = outcome, !.error = error, !.warnings = warnings,
               !.nativeCalls = nativeCalls]

\* try audioSession.setActive(true)
setActiveTrue(threw) == nativeCall("setActive", "true", threw)

\* try audioSession.setActive(false, options: options), options holding
\* .notifyOthersOnDeactivation when restorePreviousSessionOnDeactivation
setActiveFalse(restorePreviousSessionOnDeactivation, threw) ==
  nativeCall("setActive",
             IF restorePreviousSessionOnDeactivation
             THEN "false, notifyOthersOnDeactivation" ELSE "false",
             threw)

\* try audioSession.setCategory(.ambient, mode: .default, policy: .default,
\*                              options: [.mixWithOthers])
setCategoryAmbient(threw) ==
  nativeCall("setCategory", "ambient, default, default, mixWithOthers", threw)

\* A variant of activate that calls setActive(true) whatever the record says.
activateWithoutCheckingTheRecord(setActiveThrows) ==
  /\ IF setActiveThrows
     THEN /\ lastOp' = sessionOp("activate", "rejected", "ACTIVATION_FAILURE", <<>>,
                                 <<setActiveTrue(TRUE)>>)
          /\ UNCHANGED <<isSessionActive, sessionActive>>
     ELSE /\ sessionActive' = TRUE
          /\ isSessionActive' = TRUE
          /\ lastOp' = sessionOp("activate", "resolved", NoError, <<>>,
                                 <<setActiveTrue(FALSE)>>)
  /\ UNCHANGED <<osVersion, audioSession, lastCall, platform, interruptionListeners,
                 routeChangeListeners, volumeListeners, nextListenerId, osObservers,
                 appState, systemVolume>>

\* activate(warningCallback)
activate(setActiveThrows) ==
  /\ IF ~isSessionActive
     THEN IF setActiveThrows
          THEN /\ lastOp' = sessionOp("activate", "rejected", "ACTIVATION_FAILURE", <<>>,
                                      <<setActiveTrue(TRUE)>>)
               /\ UNCHANGED <<isSessionActive, sessionActive>>
          ELSE /\ sessionActive' = TRUE
               /\ isSessionActive' = TRUE
               /\ lastOp' = sessionOp("activate", "resolved", NoError, <<>>,
                                      <<setActiveTrue(FALSE)>>)
     ELSE /\ setActiveThrows = FALSE
          /\ lastOp' = sessionOp("activate", "resolved", NoError,
                                 IF volumeListeners = <<>>
                                 THEN <<"MULTIPLE_ACTIVATION_WARNING">>
                                 ELSE <<"SESSION_ALREADY_ACTIVE_WITH_VOLUME_LISTENER">>,
                                 <<>>)
          /\ UNCHANGED <<isSessionActive, sessionActive>>
  /\ UNCHANGED <<osVersion, audioSession, lastCall, platform, interruptionListeners,
                 routeChangeListeners, volumeListeners, nextListenerId, osObservers,
                 appState, systemVolume>>

sessionFrame ==
  UNCHANGED <<osVersion, lastCall, platform, interruptionListeners, routeChangeListeners,
              volumeListeners, nextListenerId, osObservers, appState, systemVolume>>

\* the fallback branch: try setCategory(.ambient, mode: .default, policy: .default,
\* options: [.mixWithOthers]), nothing else
deactivateFallback(nativeThrows) ==
  /\ IF nativeThrows
     THEN /\ lastOp' = [sessionOp("deactivate", "rejected", "DEACTIVATION_ERROR", <<>>,
                                  <<setCategoryAmbient(TRUE)>>) EXCEPT !.fallback = TRUE]
          /\ UNCHANGED audioSession
     ELSE /\ audioSession' = [audioSession EXCEPT !.category = "ambient",
                                                  !.mode = "default",
                                                  !.routeSharingPolicy = "default",
                                                  !.categoryOptions = {"mixWithOthers"}]
          /\ lastOp' = [sessionOp("deactivate", "resolved", NoError, <<>>,
                                  <<setCategoryAmbient(FALSE)>>) EXCEPT !.fallback = TRUE]
  /\ UNCHANGED <<isSessionActive, sessionActive>>

\* the other branch: setActive(false, options) when the session is recorded active,
\* MULTIPLE_DEACTIVATION_WARNING otherwise
deactivateSession(restorePreviousSessionOnDeactivation, nativeThrows) ==
  /\ IF isSessionActive
     THEN IF nativeThrows
          THEN /\ lastOp' = sessionOp("deactivate", "rejected", "DEACTIVATION_FAILURE", <<>>,
                                      <<setActiveFalse(restorePreviousSessionOnDeactivation, TRUE)>>)
               /\ UNCHANGED <<isSessionActive, sessionActive>>
          ELSE /\ sessionActive' = FALSE
               /\ isSessionActive' = FALSE
               /\ lastOp' = sessionOp("deactivate", "resolved", NoError, <<>>,
                                      <<setActiveFalse(restorePreviousSessionOnDeactivation, FALSE)>>)
     ELSE /\ nativeThrows = FALSE
          /\ lastOp' = sessionOp("deactivate", "resolved", NoError,
                                 <<"MULTIPLE_DEACTIVATION_WARNING">>, <<>>)
          /\ UNCHANGED <<isSessionActive, sessionActive>>
  /\ UNCHANGED audioSession

\* A variant that clears the record before the native call, so that a failed
\* deactivation leaves the session recorded inactive.
deactivateRecordsBeforeNativeCall(restorePreviousSessionOnDeactivation, fallbackToAmbientCategoryAndLeaveActiveForVolumeListener, nativeThrows) ==
  /\ IF fallbackToAmbientCategoryAndLeaveActiveForVolumeListener
     THEN deactivateFallback(nativeThrows)
     ELSE IF isSessionActive /\ nativeThrows
          THEN /\ isSessionActive' = FALSE
               /\ lastOp' = sessionOp("deactivate", "rejected", "DEACTIVATION_FAILURE", <<>>,
                                      <<setActiveFalse(restorePreviousSessionOnDeactivation, TRUE)>>)
               /\ UNCHANGED <<sessionActive, audioSession>>
          ELSE deactivateSession(restorePreviousSessionOnDeactivation, nativeThrows)
  /\ sessionFrame

\* A variant whose fallback also deactivates the session after setting the category.
deactivateFallbackThenDeactivate(restorePreviousSessionOnDeactivation, fallbackToAmbientCategoryAndLeaveActiveForVolumeListener, nativeThrows) ==
  /\ IF fallbackToAmbientCategoryAndLeaveActiveForVolumeListener
     THEN IF nativeThrows
          THEN deactivateFallback(nativeThrows)
          ELSE /\ audioSession' = [audioSession EXCEPT !.category = "ambient",
                                                       !.mode = "default",
                                                       !.routeSharingPolicy = "default",
                                                       !.categoryOptions = {"mixWithOthers"}]
               /\ sessionActive' = FALSE
               /\ isSessionActive' = FALSE
               /\ lastOp' = [sessionOp("deactivate", "resolved", NoError, <<>>,
                                       <<setCategoryAmbient(FALSE), setActiveFalse(FALSE, FALSE)>>)
                             EXCEPT !.fallback = TRUE]
     ELSE deactivateSession(restorePreviousSessionOnDeactivation, nativeThrows)
  /\ sessionFrame

\* deactivate(restorePreviousSessionOnDeactivation,
\*            fallbackToAmbientCategoryAndLeaveActiveForVolumeListener, warningCallback)
deactivate(restorePreviousSessionOnDeactivation, fallbackToAmbientCategoryAndLeaveActiveForVolumeListener, nativeThrows) ==
  /\ IF fallbackToAmbientCategoryAndLeaveActiveForVolumeListener
     THEN deactivateFallback(nativeThrows)
     ELSE deactivateSession(restorePreviousSessionOnDeactivation, nativeThrows)
  /\ sessionFrame

\* handleDidEnterBackground: isSessionActive = false.  The OS may or may not have
\* deactivated the session of the backgrounded app.
handleDidEnterBackground(osDeactivates) ==
  /\ isSessionActive' = FALSE
  /\ sessionActive' = IF osDeactivates THEN FALSE ELSE sessionActive
  /\ lastOp' = sessionOp("didEnterBackground", "none", NoError, <<>>, <<>>)

\* reactivateSessionIfVolumeListenersAreActive: the error of setActive(true) is printed
\* (lastOp.error) and nothing else happens
reactivateSessionIfVolumeListenersAreActive(setActiveThrows) ==
  IF ~isSessionActive /\ volumeListeners # <<>>
  THEN IF setActiveThrows
       THEN /\ lastOp' = sessionOp("willEnterForeground", "none",
                                   "Failed to activate audio session on foreground", <<>>,
                                   <<setActiveTrue(TRUE)>>)
            /\ UNCHANGED <<isSessionActive, sessionActive>>
       ELSE /\ sessionActive' = TRUE
            /\ isSessionActive' = TRUE
            /\ lastOp' = sessionOp("willEnterForeground", "none", NoError, <<>>,
                                   <<setActiveTrue(FALSE)>>)
  ELSE /\ setActiveThrows = FALSE
       /\ lastOp' = sessionOp("willEnterForeground", "none", NoError, <<>>, <<>>)
       /\ UNCHANGED <<isSessionActive, sessionActive>>

SessionInit ==
  /\ osVersion = iOS18_2
  /\ audioSession \in {SessionAtLaunch, SessionConfiguredEarlier}
  /\ lastCall = NoCall
  /\ NoListeners
  /\ sdkInt = VERSION_CODES_O
  /\ FocusFieldDefaults
  /\ NothingStarted

Activate ==
  /\ \E setActiveThrows \in BOOLEAN : activate(setActiveThrows)
  /\ UNCHANGED laterVars

Deactivate ==
  /\ \E restorePreviousSessionOnDeactivation \in BOOLEAN,
        fallbackToAmbientCategoryAndLeaveActiveForVolumeListener \in BOOLEAN,
        nativeThrows \in BOOLEAN :
       deactivate(restorePreviousSessionOnDeactivation,
                  fallbackToAmbientCategoryAndLeaveActiveForVolumeListener, nativeThrows)
  /\ UNCHANGED laterVars

DidEnterBackground ==
  /\ appState = "foreground"
  /\ "didEnterBackgroundNotification" \in osObservers
  /\ appState' = "background"
  /\ \E osDeactivates \in BOOLEAN : handleDidEnterBackground(osDeactivates)
  /\ UNCHANGED <<osVersion, audioSession, lastCall, platform, interruptionListeners,
                 routeChangeListeners, volumeListeners, nextListenerId, osObservers,
                 systemVolume>>
  /\ UNCHANGED laterVars

WillEnterForeground ==
  /\ appState = "background"
  /\ "willEnterForegroundNotification" \in osObservers
  /\ appState' = "foreground"
  /\ \E setActiveThrows \in BOOLEAN :
       reactivateSessionIfVolumeListenersAreActive(setActiveThrows)
  /\ UNCHANGED <<osVersion, audioSession, lastCall, platform, interruptionListeners,
                 routeChangeListeners, volumeListeners, nextListenerId, osObservers,
                 systemVolume>>
  /\ UNCHANGED laterVars


(***************************************************************************)
(* The speaker override of the iOS binding.                                *)
(***************************************************************************)
overrideOutputAudioPort(port, threw) == nativeCall("overrideOutputAudioPort", port, threw)

\* A variant that first switches the session to playAndRecord, as the earlier
\* ios/AudioManager.swift did, and so never warns.
forceOutputToSpeakerSettingCategory(overrideThrows) ==
  /\ audioSession' = [audioSession EXCEPT !.category = "playAndRecord", !.mode = "default",
                                          !.categoryOptions = {}]
  /\ IF overrideThrows
     THEN /\ lastOp' = sessionOp("forceOutputToSpeaker", "threw", "SPEAKER_OVERRIDE_FAILURE",
                                 <<>>, <<overrideOutputAudioPort("speaker", TRUE)>>)
          /\ UNCHANGED outputOverride
     ELSE /\ lastOp' = sessionOp("forceOutputToSpeaker", "returned", NoError, <<>>,
                                 <<overrideOutputAudioPort("speaker", FALSE)>>)
          /\ outputOverride' = "speaker"
  /\ UNCHANGED <<isSessionActive, sessionActive>>
  /\ sessionFrame

\* forceOutputToSpeaker(warningCallback:)
forceOutputToSpeaker(overrideThrows) ==
  /\ IF audioSession.category # "playAndRecord"
     THEN /\ overrideThrows = FALSE
          /\ lastOp' = sessionOp("forceOutputToSpeaker", "returned", NoError,
                                 <<"INCOMPATIBLE_CATEGORY">>, <<>>)
          /\ UNCHANGED outputOverride
     ELSE IF overrideThrows
     THEN /\ lastOp' = sessionOp("forceOutputToSpeaker", "threw", "SPEAKER_OVERRIDE_FAILURE",
                                 <<>>, <<overrideOutputAudioPort("speaker", TRUE)>>)
          /\ UNCHANGED outputOverride
     ELSE /\ lastOp' = sessionOp("forceOutputToSpeaker", "returned", NoError, <<>>,
                                 <<overrideOutputAudioPort("speaker", FALSE)>>)
          /\ outputOverride' = "speaker"
  /\ UNCHANGED <<audioSession, isSessionActive, sessionActive>>
  /\ sessionFrame

\* cancelForcedOutputToSpeaker()
cancelForcedOutputToSpeaker(overrideThrows) ==
  /\ IF overrideThrows
     THEN /\ lastOp' = sessionOp("cancelForcedOutputToSpeaker", "threw",
                                 "SPEAKER_OVERRIDE_CANCELLATION_FAILURE", <<>>,
                                 <<overrideOutputAudioPort("none", TRUE)>>)
          /\ UNCHANGED outputOverride
     ELSE /\ lastOp' = sessionOp("cancelForcedOutputToSpeaker", "returned", NoError, <<>>,
                                 <<overrideOutputAudioPort("none", FALSE)>>)
          /\ outputOverride' = "none"
  /\ UNCHANGED <<audioSession, isSessionActive, sessionActive>>
  /\ sessionFrame

ForceOutputToSpeaker ==
  /\ \E overrideThrows \in BOOLEAN : forceOutputToSpeaker(overrideThrows)
  /\ UNCHANGED <<focusVars, mounted, fanOut, promises>>

CancelForcedOutputToSpeaker ==
  /\ \E overrideThrows \in BOOLEAN : cancelForcedOutputToSpeaker(overrideThrows)
  /\ UNCHANGED <<focusVars, mounted, fanOut, promises>>


\* An interruption begins: the OS deactivates the session and posts
\* interruptionNotification; handleInterruption fans the event out and leaves
\* isSessionActive as it was.
InterruptionBegan ==
  /\ "interruptionNotification" \in osObservers
  /\ sessionActive' = FALSE
  /\ LET ev == [NoEvent EXCEPT !.type = "began", !.reason = "default"]
     IN  lastOp' = [NoOp EXCEPT !.op = "notify", !.channel = "audioInterruption",
                                !.event = ev,
                                !.invoked = forEach(interruptionListeners, ev)]
  /\ UNCHANGED <<isSessionActive, audioSession>>
  /\ sessionFrame
  /\ UNCHANGED laterVars

SessionNext ==
  \/ Activate
  \/ Deactivate
  \/ AddVolumeListener
  \/ RemoveVolumeListener
  \/ DidEnterBackground
  \/ WillEnterForeground
  \/ ForceOutputToSpeaker
  \/ CancelForcedOutputToSpeaker
  \/ InterruptionBegan

SessionSpec == SessionInit /\ [][SessionNext]_vars

(***************************************************************************)
(* setSystemVolume.  The JS wrapper clamps and hands the setpoint to the   *)
(* native setSystemVolume(value, showUI).  systemVolume is what the OS     *)
(* holds afterwards: on iOS the hidden slider's value in tenths, on        *)
(* Android the STREAM_MUSIC index in 0..StreamMaxVolume.                   *)
(***************************************************************************)
MaxVolumeTenths == 15

StreamMaxVolume == 15

PosInfinity == [kind |-> "+Infinity", tenths |-> 0]

NegInfinity == [kind |-> "-Infinity", tenths |-> 0]

\* the JS numbers tried: -1.5 .. 1.5 in tenths, the infinities and NaN
Numbers ==
  {Finite(t) : t \in (0 - MaxVolumeTenths)..MaxVolumeTenths} \cup {PosInfinity, NegInfinity, NaN}

\* value < tenths/10 and value > tenths/10 as IEEE comparisons: false for NaN
lessThan(value, tenths) ==
  \/ value.kind = "-Infinity"
  \/ value.kind = "finite" /\ value.tenths < tenths

greaterThan(value, tenths) ==
  \/ value.kind = "+Infinity"
  \/ value.kind = "finite" /\ value.tenths > tenths

\* hooks.tsx: let setpoint = value; if (value < 0) setpoint = 0 else if (value > 1) setpoint = 1
clamp(value) ==
  IF lessThan(value, 0) THEN Finite(0)
  ELSE IF greaterThan(value, 10) THEN Finite(10)
  ELSE value

\* console.warn of the wrapper
clampWarnings(value) ==
  IF lessThan(value, 0) THEN <<"setSystemVolume received value < 0, clamping to 0.">>
  ELSE IF greaterThan(value, 10) THEN <<"setSystemVolume received value > 1, clamping to 1.">>
  ELSE <<>>

\* Kotlin value.coerceIn(0.0, 1.0): NaN compares false both ways and is returned
coerceIn(value) ==
  IF lessThan(value, 0) THEN Finite(0)
  ELSE IF greaterThan(value, 10) THEN Finite(10)
  ELSE value

\* Kotlin (x * maxVolume).roundToInt() for x = tenths/10: nearest integer, ties upward
roundToInt(tenths, maxVolume) == (2 * tenths * maxVolume + 10) \div 20

\* UISlider.value = Float(value): the slider keeps its value within 0...1
sliderValue(value) ==
  IF lessThan(value, 0) THEN Finite(0)
  ELSE IF greaterThan(value, 10) THEN Finite(10)
  ELSE value

volumeOp(value, setpoint, showUI, outcome, error) ==
  [NoOp EXCEPT !.op = "setSystemVolume", !.value = value, !.setpoint = setpoint,
               !.outcome = outcome, !.error = error, !.warnings = clampWarnings(value),
               !.nativeCalls = <<nativeCall("setSystemVolume", showUI, outcome = "rejected")>>]

\* a JS value whose typeof is not 'number'
NonNumber == [kind |-> "string", tenths |-> 0]

\* iOS setSystemVolume(value:showUI:) -> HiddenVolumeView.setVolume.  What a slider does
\* with NaN is not specified: any slider value may result.
setSystemVolumeIOS(value, setpoint, showUI, hiddenVolumeViewReady) ==
  IF ~hiddenVolumeViewReady
  THEN /\ lastOp' = volumeOp(value, setpoint, showUI, "rejected", "FAILED_TO_SET_VOLUME")
       /\ UNCHANGED systemVolume
  ELSE /\ lastOp' = volumeOp(value, setpoint, showUI, "resolved", NoError)
       /\ IF setpoint = NaN
          THEN systemVolume' \in {Finite(t) : t \in 0..10}
          ELSE systemVolume' = sliderValue(setpoint)

\* Android setSystemVolume(value, showUI): roundToInt throws IllegalArgumentException
\* for NaN, inside Promise.async
setSystemVolumeAndroid(value, setpoint, showUI) ==
  LET coerced == coerceIn(setpoint)
  IN  IF coerced = NaN
      THEN /\ lastOp' = volumeOp(value, setpoint, showUI, "rejected",
                                 "IllegalArgumentException")
           /\ UNCHANGED systemVolume
      ELSE /\ lastOp' = volumeOp(value, setpoint, showUI, "resolved", NoError)
           /\ systemVolume' = Finite(roundToInt(coerced.tenths, StreamMaxVolume))

\* hooks.tsx setSystemVolume(value, options)
setSystemVolume(value, showUI, hiddenVolumeViewReady) ==
  /\ IF value.kind = "string"
     THEN /\ lastOp' = [NoOp EXCEPT !.op = "setSystemVolume", !.value = value,
                                    !.outcome = "threw", !.error = "INVALID_PARAMETER"]
          /\ hiddenVolumeViewReady
          /\ UNCHANGED systemVolume
     ELSE IF platform = "ios"
          THEN setSystemVolumeIOS(value, clamp(value), showUI, hiddenVolumeViewReady)
          ELSE /\ hiddenVolumeViewReady
               /\ setSystemVolumeAndroid(value, clamp(value), showUI)
  /\ UNCHANGED <<osVersion, audioSession, lastCall, listenerVars, appState>>

VolumeInit == ListenerInit

SetSystemVolume ==
  /\ \E value \in Numbers \cup {NonNumber}, showUI \in BOOLEAN,
        hiddenVolumeViewReady \in BOOLEAN :
       setSystemVolume(value, showUI, hiddenVolumeViewReady)
  /\ UNCHANGED laterVars

VolumeNext == SetSystemVolume

VolumeSpec == VolumeInit /\ [][VolumeNext]_vars


(***************************************************************************)
(* The hooks of hooks.tsx.  Mounting a component runs the hook's effect,   *)
(* unmounting runs the cleanup the effect returned.  mounted[hook] lists,  *)
(* per mounted instance, the listener id its unsubscribe closure holds.    *)
(***************************************************************************)
\* the effect of useVolume: getSystemVolume() reads, addListener('volume', ...) registers
useVolume(callback, setCategoryThrows, setActiveThrows) ==
  /\ addVolumeListener(callback, setCategoryThrows, setActiveThrows)
  /\ mounted' = [mounted EXCEPT !["useVolume"] = Append(@, nextListenerId)]

\* the effect of useIsHeadphonesConnected: addListener('routeChange', ...)
useIsHeadphonesConnected(callback) ==
  /\ addRouteChangeListener(callback)
  /\ mounted' = [mounted EXCEPT !["useIsHeadphonesConnected"] = Append(@, nextListenerId)]

hookChannel(hook) == IF hook = "useVolume" THEN "volume" ELSE "routeChange"

\* the cleanup of either hook: `return () => { unsubscribe; }` evaluates the closure
\* as an expression and does not call it
cleanup(hook, i) ==
  /\ mounted' = [mounted EXCEPT ![hook] = SubSeq(@, 1, i - 1) \o SubSeq(@, i + 1, Len(@))]
  /\ lastOp' = [NoOp EXCEPT !.op = "unmount", !.channel = hookChannel(hook),
                            !.id = mounted[hook][i]]
  /\ UNCHANGED <<osVersion, audioSession, lastCall, listenerVars, appState, systemVolume>>

MountUseVolume ==
  /\ \E callback \in Callbacks, setCategoryThrows \in BOOLEAN, setActiveThrows \in BOOLEAN :
       useVolume(callback, setCategoryThrows, setActiveThrows)
  /\ UNCHANGED <<focusVars, outputOverride, fanOut, promises>>

MountUseIsHeadphonesConnected ==
  /\ \E callback \in Callbacks : useIsHeadphonesConnected(callback)
  /\ UNCHANGED <<focusVars, outputOverride, fanOut, promises>>

Unmount ==
  /\ \E hook \in Hooks : \E i \in DOMAIN mounted[hook] : cleanup(hook, i)
  /\ UNCHANGED <<focusVars, outputOverride, fanOut, promises>>

HookInit == ListenerInit

HookNext ==
  \/ MountUseVolume
  \/ MountUseIsHeadphonesConnected
  \/ Unmount
  \/ HandleRouteChange
  \/ VolumeChanged

HookSpec == HookInit /\ [][HookNext]_vars


(***************************************************************************)
(* Audio focus on Android: configureAudioManager stores the focus          *)
(* parameters, activate() requests focus, deactivate() abandons it, and    *)
(* the OS reports later focus changes through focusCallback.  The tokens   *)
(* of types.ts are what the TypeScript API hands over; the Kotlin `when`   *)
(* statements are modelled case by case.                                   *)
(***************************************************************************)
\* types.ts: the exported token tables
AudioFocusGainTypes ==
  {"Gain", "GainTransient", "GainTransientMayDuck", "GainTransientExclusive",
   "GainTransientAllowPause"}

AudioUsages ==
  {"Alarm", "AssistanceAccessibility", "AssistanceNavigationGuidance",
   "AssistanceSonification", "Assistant", "Game", "Media", "Notification",
   "NotificationCommunicationDelayed", "NotificationCommunicationInstant",
   "NotificationCommunicationRequest", "NotificationEvent", "NotificationRingtone",
   "Unknown", "VoiceCommunication", "VoiceCommunicationSignalling"}

AudioContentTypes == {"Music", "Speech", "Movie", "Sonification", "Unknown"}

\* configureAudioManager: focusGainType = when (focusGain) { ... }
focusGainTypeOf(focusGain) ==
  CASE focusGain = "GAIN"                       -> "AUDIOFOCUS_GAIN"
    [] focusGain = "GAIN_TRANSIENT"             -> "AUDIOFOCUS_GAIN_TRANSIENT"
    [] focusGain = "GAIN_TRANSIENT_MAY_DUCK"    -> "AUDIOFOCUS_GAIN_TRANSIENT_MAY_DUCK"
    [] focusGain = "GAIN_TRANSIENT_EXCLUSIVE"   -> "AUDIOFOCUS_GAIN_TRANSIENT_EXCLUSIVE"
    [] focusGain = "GAIN_TRANSIENT_ALLOW_PAUSE" -> "AUDIOFOCUS_GAIN_TRANSIENT_MAY_DUCK"
    [] OTHER                                    -> "AUDIOFOCUS_GAIN"

\* configureAudioManager: this.usage = when (usage) { ... }
usageOf(token) ==
  CASE token = "USAGE_GAME"                -> "USAGE_GAME"
    [] token = "USAGE_VOICE_COMMUNICATION" -> "USAGE_VOICE_COMMUNICATION"
    [] token = "USAGE_ALARM"               -> "USAGE_ALARM"
    [] token = "USAGE_NOTIFICATION"        -> "USAGE_NOTIFICATION"
    [] OTHER                               -> "USAGE_MEDIA"

\* configureAudioManager: this.contentType = when (contentType) { ... }
contentTypeOf(token) ==
  CASE token = "CONTENT_TYPE_SPEECH"       -> "CONTENT_TYPE_SPEECH"
    [] token = "CONTENT_TYPE_MOVIE"        -> "CONTENT_TYPE_MOVIE"
    [] token = "CONTENT_TYPE_SONIFICATION" -> "CONTENT_TYPE_SONIFICATION"
    [] OTHER                               -> "CONTENT_TYPE_MUSIC"

\* getAudioManagerStatusAndroid: focusGainEnum, as the TypeScript value of the enum
focusGainEnum(type) ==
  CASE type = "AUDIOFOCUS_GAIN"                     -> "Gain"
    [] type = "AUDIOFOCUS_GAIN_TRANSIENT"           -> "GainTransient"
    [] type = "AUDIOFOCUS_GAIN_TRANSIENT_MAY_DUCK"  -> "GainTransientMayDuck"
    [] type = "AUDIOFOCUS_GAIN_TRANSIENT_EXCLUSIVE" -> "GainTransientExclusive"
    [] OTHER                                        -> "Gain"

\* getAudioManagerStatusAndroid: usageEnum
usageEnum(u) ==
  CASE u = "USAGE_ALARM"               -> "Alarm"
    [] u = "USAGE_GAME"                -> "Game"
    [] u = "USAGE_MEDIA"               -> "Media"
    [] u = "USAGE_NOTIFICATION"        -> "Notification"
    [] u = "USAGE_VOICE_COMMUNICATION" -> "VoiceCommunication"
    [] OTHER                           -> "Unknown"

\* getAudioManagerStatusAndroid: contentEnum
contentEnum(c) ==
  CASE c = "CONTENT_TYPE_MOVIE"        -> "Movie"
    [] c = "CONTENT_TYPE_MUSIC"        -> "Music"
    [] c = "CONTENT_TYPE_SONIFICATION" -> "Sonification"
    [] c = "CONTENT_TYPE_SPEECH"       -> "Speech"
    [] OTHER                           -> "Unknown"

\* getAudioManagerStatusAndroid(), without mode and ringerMode, which it reads from the OS
getAudioManagerStatusAndroid ==
  [focusGain |-> focusGainEnum(focusGainType), usage |-> usageEnum(usage),
   contentType |-> contentEnum(contentType), willPauseWhenDucked |-> willPauseWhenDucked,
   acceptsDelayedFocusGain |-> acceptsDelayedFocusGain]

focusFrame ==
  UNCHANGED <<osVersion, audioSession, lastCall, platform, interruptionListeners,
              routeChangeListeners, volumeListeners, nextListenerId, isSessionActive,
              sessionActive, appState, systemVolume, sdkInt, hookVars>>

\* configureAudioManager(focusGain, usage, contentType, willPauseWhenDucked,
\* acceptsDelayedFocusGain)
configureAudioManager(args) ==
  /\ focusGainType' = focusGainTypeOf(args.focusGain)
  /\ usage' = usageOf(args.usage)
  /\ contentType' = contentTypeOf(args.contentType)
  /\ willPauseWhenDucked' = args.willPauseWhenDucked
  /\ acceptsDelayedFocusGain' = args.acceptsDelayedFocusGain
  /\ lastOp' = [NoOp EXCEPT !.op = "configureAudioManager", !.args = args,
                            !.outcome = "returned"]
  /\ UNCHANGED <<currentFocusRequest, hasAudioFocus, osObservers>>
  /\ focusFrame

\* AudioFocusRequest.Builder(focusGainType).setAudioAttributes(attrs)...build()
buildFocusRequest ==
  [api |-> "AudioFocusRequest", focusGain |-> focusGainType, usage |-> usage,
   contentType |-> contentType, willPauseWhenDucked |-> willPauseWhenDucked,
   acceptsDelayedFocusGain |-> acceptsDelayedFocusGain]

\* am.requestAudioFocus(focusCallback, STREAM_MUSIC, focusGainType)
legacyFocusRequest == [NoFocusRequest EXCEPT !.api = "legacy", !.focusGain = focusGainType]

\* the results requestAudioFocus can return for a request
RequestResults(request) ==
  {"AUDIOFOCUS_REQUEST_GRANTED", "AUDIOFOCUS_REQUEST_FAILED"}
  \cup (IF request.acceptsDelayedFocusGain THEN {"AUDIOFOCUS_REQUEST_DELAYED"} ELSE {})

\* Android activate(): the request is built on the first call only; hasAudioFocus is
\* written by focusCallback alone
activateAndroid(result) ==
  LET built == IF currentFocusRequest = NoFocusRequest
               THEN IF sdkInt >= VERSION_CODES_O THEN buildFocusRequest ELSE NoFocusRequest
               ELSE currentFocusRequest
      request == IF sdkInt >= VERSION_CODES_O /\ built # NoFocusRequest
                 THEN built ELSE legacyFocusRequest
  IN  /\ result \in RequestResults(request)
      /\ currentFocusRequest' = built
      /\ osObservers' = IF result = "AUDIOFOCUS_REQUEST_FAILED" THEN osObservers
                        ELSE osObservers \cup {"focusCallback"}
      /\ lastOp' = IF result # "AUDIOFOCUS_REQUEST_GRANTED"
                   THEN [NoOp EXCEPT !.op = "activate", !.outcome = "rejected",
                                     !.error = "Audio focus request failed",
                                     !.request = request]
                   ELSE [NoOp EXCEPT !.op = "activate", !.outcome = "resolved",
                                     !.request = request]
      /\ UNCHANGED <<focusGainType, usage, contentType, willPauseWhenDucked,
                     acceptsDelayedFocusGain, hasAudioFocus>>
      /\ focusFrame

\* Android deactivate(): abandonAudioFocusRequest / abandonAudioFocus release focusCallback
deactivateAndroid ==
  /\ osObservers' = osObservers \ {"focusCallback"}
  /\ lastOp' = [NoOp EXCEPT !.op = "deactivate", !.outcome = "resolved",
                            !.request = IF sdkInt >= VERSION_CODES_O
                                           /\ currentFocusRequest # NoFocusRequest
                                        THEN currentFocusRequest
                                        ELSE [NoFocusRequest EXCEPT !.api = "legacy"]]
  /\ UNCHANGED <<focusGainType, usage, contentType, willPauseWhenDucked,
                 acceptsDelayedFocusGain, currentFocusRequest, hasAudioFocus>>
  /\ focusFrame

\* Android isActive()
isActiveAndroid == hasAudioFocus

\* the configurations tried: tokens of types.ts and tokens the Kotlin `when` knows
FocusArgs ==
  [focusGain : {"Gain", "GainTransientMayDuck", "GAIN_TRANSIENT"},
   usage : {"Media", "Game", "USAGE_GAME"},
   contentType : {"Speech", "CONTENT_TYPE_SPEECH"},
   willPauseWhenDucked : BOOLEAN,
   acceptsDelayedFocusGain : BOOLEAN]

FocusInit ==
  /\ osVersion = iOS18_2
  /\ audioSession = SessionAtLaunch
  /\ lastCall = NoCall
  /\ platform = "android"
  /\ interruptionListeners = <<>>
  /\ routeChangeListeners = <<>>
  /\ volumeListeners = <<>>
  /\ nextListenerId = 0
  /\ osObservers = {}
  /\ isSessionActive = FALSE
  /\ sessionActive = FALSE
  /\ appState = "foreground"
  /\ systemVolume = Finite(5)
  /\ lastOp = NoOp
  /\ sdkInt \in {VERSION_CODES_O - 1, VERSION_CODES_O}
  /\ FocusFieldDefaults
  /\ NothingStarted

ConfigureAudioManager == \E args \in FocusArgs : configureAudioManager(args)

ActivateAndroid ==
  \E result \in {"AUDIOFOCUS_REQUEST_GRANTED", "AUDIOFOCUS_REQUEST_FAILED",
                 "AUDIOFOCUS_REQUEST_DELAYED"} : activateAndroid(result)

DeactivateAndroid == deactivateAndroid

FocusNext ==
  \/ ConfigureAudioManager
  \/ ActivateAndroid
  \/ DeactivateAndroid
  \/ FocusChanged

FocusSpec == FocusInit /\ [][FocusNext]_vars


(***************************************************************************)
(* Fan-out, one callback at a time.  A callback runs inside the forEach of *)
(* the handler and may itself call addListener or the unsubscribe function *)
(* on the channel being notified.  Swift's forEach walks the array value   *)
(* it was called on; Kotlin's forEach walks the MutableList itself with    *)
(* its iterator, which finishes when its cursor equals the list size and   *)
(* otherwise throws ConcurrentModificationException once the list has been *)
(* structurally modified.  fanOut.index is the number of elements the      *)
(* iteration has taken, fanOut.arrived the list when the notification      *)
(* arrived.                                                                *)
(***************************************************************************)
\* handleRouteChange / dispatchRouteChange up to the forEach
beginRouteChange(reason) ==
  /\ fanOut' = [channel |-> "routeChange", event |-> [NoEvent EXCEPT !.reason = reason],
                arrived |-> routeChangeListeners, index |-> 0, invoked |-> <<>>,
                modified |-> FALSE]
  /\ UNCHANGED <<osVersion, audioSession, lastCall, listenerVars, lifecycleVars>>

invocation(l, ev) == [id |-> l.id, callback |-> l.callback, event |-> ev]

\* the list the forEach in progress walks
iterated == IF platform = "ios" THEN fanOut.arrived ELSE routeChangeListeners

\* forEach takes the next element and calls its callback
invokeNext ==
  /\ fanOut.index < Len(iterated)
  /\ platform = "android" => ~fanOut.modified
  /\ fanOut' = [fanOut EXCEPT !.index = @ + 1,
                              !.invoked = Append(@, invocation(iterated[fanOut.index + 1],
                                                               fanOut.event))]
  /\ UNCHANGED <<osVersion, audioSession, lastCall, listenerVars, lifecycleVars>>

\* forEach is done: the handler returns
fanOutReturns ==
  /\ fanOut.index = Len(iterated)
  /\ lastOp' = [NoOp EXCEPT !.op = "notify", !.channel = fanOut.channel,
                            !.event = fanOut.event, !.invoked = fanOut.invoked,
                            !.outcome = "returned"]
  /\ fanOut' = NoFanOut
  /\ UNCHANGED <<osVersion, audioSession, lastCall, listenerVars, appState, systemVolume>>

\* Android: Iterator.next() finds the list modified
fanOutThrows ==
  /\ platform = "android"
  /\ fanOut.index # Len(iterated)
  /\ fanOut.modified
  /\ lastOp' = [NoOp EXCEPT !.op = "notify", !.channel = fanOut.channel,
                            !.event = fanOut.event, !.invoked = fanOut.invoked,
                            !.outcome = "threw",
                            !.error = "ConcurrentModificationException"]
  /\ fanOut' = NoFanOut
  /\ UNCHANGED <<osVersion, audioSession, lastCall, listenerVars, appState, systemVolume>>

\* the callback just invoked calls addListener('routeChange', ...)
callbackAddsListener(callback) ==
  /\ addRouteChangeListener(callback)
  /\ fanOut' = [fanOut EXCEPT !.modified = TRUE]

\* the callback just invoked calls an unsubscribe function of the channel
callbackRemovesListener(id) ==
  /\ removeRouteChangeListener(id)
  /\ fanOut' = [fanOut EXCEPT !.modified = @ \/ routeChangeListeners' # routeChangeListeners]

fanOutFrame == UNCHANGED <<focusVars, outputOverride, mounted, promises>>

FanOutInit == ListenerInit

Subscribe ==
  /\ fanOut = NoFanOut
  /\ AddRouteChangeListener

Unsubscribe ==
  /\ fanOut = NoFanOut
  /\ RemoveRouteChangeListener

RouteChangeArrives ==
  /\ fanOut = NoFanOut
  /\ IF platform = "ios" THEN "routeChangeNotification" \in osObservers
                         ELSE "deviceCallback" \in osObservers
  /\ \E reason \in RouteChangeReasons : beginRouteChange(reason)
  /\ fanOutFrame

InvokeNext ==
  /\ fanOut # NoFanOut
  /\ invokeNext
  /\ fanOutFrame

CallbackAddsListener ==
  /\ fanOut.index >= 1
  /\ \E callback \in Callbacks : callbackAddsListener(callback)
  /\ fanOutFrame

CallbackRemovesListener ==
  /\ fanOut.index >= 1
  /\ \E id \in 0..(MaxListeners - 1) : callbackRemovesListener(id)
  /\ fanOutFrame

FanOutReturns ==
  /\ fanOut # NoFanOut
  /\ fanOutReturns
  /\ fanOutFrame

FanOutThrows ==
  /\ fanOut # NoFanOut
  /\ fanOutThrows
  /\ fanOutFrame

FanOutNext ==
  \/ Subscribe
  \/ Unsubscribe
  \/ RouteChangeArrives
  \/ InvokeNext
  \/ CallbackAddsListener
  \/ CallbackRemovesListener
  \/ FanOutReturns
  \/ FanOutThrows

FanOutSpec == FanOutInit /\ [][FanOutNext]_vars


(***************************************************************************)
(* The iOS activate() and deactivate() bodies run inside Promise.async,    *)
(* off the calling thread and without a lock, so their steps interleave    *)
(* with each other and with the handlers.  A body reads isSessionActive,   *)
(* then calls setActive, then writes isSessionActive.  promises lists the  *)
(* bodies in flight; pc is the step a body takes next.                     *)
(***************************************************************************)
PromiseBody(op, restore) == [op |-> op, pc |-> "read", restore |-> restore]

without(seq, i) == SubSeq(seq, 1, i - 1) \o SubSeq(seq, i + 1, Len(seq))

promiseFrame ==
  UNCHANGED <<osVersion, audioSession, lastCall, platform, interruptionListeners,
              routeChangeListeners, volumeListeners, nextListenerId, osObservers,
              appState, systemVolume, focusVars, outputOverride, mounted, fanOut>>

\* activate(warningCallback:) up to `return Promise.async { ... }`
startActivate ==
  /\ promises' = Append(promises, PromiseBody("activate", FALSE))
  /\ UNCHANGED <<isSessionActive, sessionActive, lastOp>>

\* deactivate(...) without the fallback flag, up to `return Promise.async { ... }`
startDeactivate(restorePreviousSessionOnDeactivation) ==
  /\ promises' = Append(promises, PromiseBody("deactivate",
                                              restorePreviousSessionOnDeactivation))
  /\ UNCHANGED <<isSessionActive, sessionActive, lastOp>>

\* `if !self.isSessionActive` / `if self.isSessionActive`; the else branch warns and
\* the promise resolves
readIsSessionActive(i) ==
  LET body == promises[i]
      proceeds == IF body.op = "activate" THEN ~isSessionActive ELSE isSessionActive
  IN  /\ body.pc = "read"
      /\ IF proceeds
         THEN /\ promises' = [promises EXCEPT ![i].pc = "call"]
              /\ UNCHANGED lastOp
         ELSE /\ promises' = without(promises, i)
              /\ lastOp' = sessionOp(body.op, "resolved", NoError,
                                     IF body.op = "deactivate"
                                     THEN <<"MULTIPLE_DEACTIVATION_WARNING">>
                                     ELSE IF volumeListeners = <<>>
                                     THEN <<"MULTIPLE_ACTIVATION_WARNING">>
                                     ELSE <<"SESSION_ALREADY_ACTIVE_WITH_VOLUME_LISTENER">>,
                                     <<>>)
      /\ UNCHANGED <<isSessionActive, sessionActive>>

\* `try self.audioSession.setActive(...)`; a throw rejects the promise
callSetActive(i, threw) ==
  LET body == promises[i]
      call == IF body.op = "activate" THEN setActiveTrue(threw)
              ELSE setActiveFalse(body.restore, threw)
  IN  /\ body.pc = "call"
      /\ IF threw
         THEN /\ promises' = without(promises, i)
              /\ lastOp' = sessionOp(body.op, "rejected",
                                     IF body.op = "activate" THEN "ACTIVATION_FAILURE"
                                     ELSE "DEACTIVATION_FAILURE", <<>>, <<call>>)
              /\ UNCHANGED sessionActive
         ELSE /\ promises' = [promises EXCEPT ![i].pc = "write"]
              /\ sessionActive' = (body.op = "activate")
              /\ UNCHANGED lastOp
      /\ UNCHANGED isSessionActive

\* `self.isSessionActive = true` / `= false`; the promise resolves
writeIsSessionActive(i) ==
  LET body == promises[i]
  IN  /\ body.pc = "write"
      /\ isSessionActive' = (body.op = "activate")
      /\ promises' = without(promises, i)
      /\ lastOp' = sessionOp(body.op, "resolved", NoError, <<>>,
                             <<IF body.op = "activate" THEN setActiveTrue(FALSE)
                               ELSE setActiveFalse(body.restore, FALSE)>>)
      /\ UNCHANGED sessionActive

PromiseInit == SessionInit

StartActivate ==
  /\ Len(promises) < MaxPromises
  /\ startActivate
  /\ promiseFrame

StartDeactivate ==
  /\ Len(promises) < MaxPromises
  /\ \E restorePreviousSessionOnDeactivation \in BOOLEAN :
       startDeactivate(restorePreviousSessionOnDeactivation)
  /\ promiseFrame

ReadIsSessionActive ==
  /\ \E i \in DOMAIN promises : readIsSessionActive(i)
  /\ promiseFrame

CallSetActive ==
  /\ \E i \in DOMAIN promises, threw \in BOOLEAN : callSetActive(i, threw)
  /\ promiseFrame

WriteIsSessionActive ==
  /\ \E i \in DOMAIN promises : writeIsSessionActive(i)
  /\ promiseFrame

PromiseNext ==
  \/ StartActivate
  \/ StartDeactivate
  \/ ReadIsSessionActive
  \/ CallSetActive
  \/ WriteIsSessionActive
  \/ AddVolumeListener
  \/ DidEnterBackground
  \/ WillEnterForeground

PromiseSpec == PromiseInit /\ [][PromiseNext]_vars

(***************************************************************************)
(* Observations of the call recorded in lastCall, used by the properties.  *)
(***************************************************************************)
Range(s) == {s[i] : i \in DOMAIN s}

callsTo(fn) == SelectSeq(lastCall.nativeCalls, LAMBDA c : c.fn = fn)

warningsNamed(name) == SelectSeq(lastCall.warnings, LAMBDA w : w.name = name)

requestedOptions == Range(lastCall.args.categoryOptions)

occurrences(optionName) ==
  Cardinality({i \in DOMAIN lastCall.args.categoryOptions :
                 lastCall.args.categoryOptions[i] = optionName})

Threw(fn) == Len(callsTo(fn)) = 1 /\ callsTo(fn)[1].threw

setCategorySucceeded ==
  /\ lastCall.called
  /\ Len(callsTo("setCategory")) = 1
  /\ ~callsTo("setCategory")[1].threw

ValidationErrors ==
  {"INVALID_CATEGORY", "INVALID_MODE", "UNSUPPORTED_CATEGORY_OPTION",
   "INVALID_CATEGORY_OPTION"}

PreferenceWarnings ==
  {"PREFERENCE_FAILURE_NO_INTERRUPTIONS", "PREFERENCE_FAILURE_HAPTICS",
   "PREFERENCE_FAILURE_ROUTE_DISCONNECT", "PREFERENCE_WARNING_ECHO_CANCELLATION"}

ImpliedA2DPCategories == {"Ambient", "SoloAmbient", "Playback"}

\* the per-option legality table: what may be requested explicitly, what is implied by
\* the category, and OverrideMutedMicrophoneInterruption on Record
LegalityTable(categoryName) ==
  AudioSessionCompatibleCategoryOptions(categoryName)
    \cup (IF categoryName \in ImpliedA2DPCategories THEN {"AllowBluetoothA2DP"} ELSE {})
    \cup (IF categoryName = "Record" THEN {"OverrideMutedMicrophoneInterruption"} ELSE {})

\* a call whose category is a token and whose mode is legal for it
LegalCategoryAndMode ==
  /\ lastCall.called
  /\ lastCall.args.category \in AudioSessionCategory
  /\ lastCall.args.mode \in AudioSessionCompatibleModes(lastCall.args.category)

\* ... and whose options may all be requested explicitly on the running OS version
CompatibleConfiguration ==
  /\ LegalCategoryAndMode
  /\ requestedOptions \subseteq AudioSessionCompatibleCategoryOptions(lastCall.args.category)
  /\ "OverrideMutedMicrophoneInterruption" \in requestedOptions => osVersion >= iOS16_0

NoPreferenceRequested ==
  /\ ~lastCall.args.prefersNoInterruptionFromSystemAlerts
  /\ ~lastCall.args.prefersInterruptionOnRouteDisconnect
  /\ ~lastCall.args.allowHapticsAndSystemSoundsDuringRecording
  /\ ~lastCall.args.prefersEchoCancelledInput

(***************************************************************************)
(* C1.  For every category and every one of the eight option tokens, if    *)
(* the (category, option) pair is not in the legality table, the call with *)
(* that option fails with UNSUPPORTED_CATEGORY_OPTION and setCategory is   *)
(* not invoked.  Stated for a legal mode and the option alone in the list. *)
(* Does not hold: "AllowBluetoothHFP" matches no case of the option switch *)
(* (its case is spelled "AllowBluetooth"), so the error is                 *)
(* INVALID_CATEGORY_OPTION.                                                *)
(***************************************************************************)
C1_IllegalOptionIsUnsupported ==
  ( /\ LegalCategoryAndMode
    /\ Len(lastCall.args.categoryOptions) = 1
    /\ lastCall.args.categoryOptions[1] \in
         AudioSessionCategoryOptions \ LegalityTable(lastCall.args.category) )
  => /\ lastCall.error = "UNSUPPORTED_CATEGORY_OPTION"
     /\ callsTo("setCategory") = <<>>

(***************************************************************************)
(* C2.  Every compatible combination of category, mode and options         *)
(* completes without a hard error, makes exactly one setCategory call      *)
(* carrying the requested category, mode and options, and the status read  *)
(* afterwards reports them.  Does not hold: AllowBluetoothHFP (legal on    *)
(* Record and PlayAndRecord) and VoicePrompt (legal on PlayAndRecord) are  *)
(* rejected before the native call.                                        *)
(***************************************************************************)
C2_CompatibleConfigurationIsApplied ==
  CompatibleConfiguration
  => /\ lastCall.error = NoError
     /\ Len(callsTo("setCategory")) = 1
     /\ LET a == callsTo("setCategory")[1].arg
        IN  /\ readableCategory(a.category) = lastCall.args.category
            /\ readableMode(a.mode) = lastCall.args.mode
            /\ requestedOptions \subseteq Range(readableCategoryOptions(a.options))
     /\ LET status == getAudioSessionStatusIOS(audioSession, osVersion)
        IN  /\ status.category = lastCall.args.category
            /\ status.mode = lastCall.args.mode
            /\ requestedOptions \subseteq Range(status.categoryOptions)

(***************************************************************************)
(* C3.  For every category and every mode of its legal-mode set the call   *)
(* does not fail with INVALID_MODE.  Does not hold: the mode switch has no *)
(* case for VoicePrompt, which is legal on PlayAndRecord.                  *)
(***************************************************************************)
C3_LegalModeIsNeverInvalidMode ==
  LegalCategoryAndMode => lastCall.error # "INVALID_MODE"

(***************************************************************************)
(* C4.  AllowBluetoothA2DP requested on Ambient, SoloAmbient or Playback.  *)
(***************************************************************************)
ImpliedA2DPRequested ==
  /\ LegalCategoryAndMode
  /\ lastCall.args.category \in ImpliedA2DPCategories
  /\ "AllowBluetoothA2DP" \in requestedOptions
  /\ (requestedOptions \ {"AllowBluetoothA2DP"})
       \subseteq AudioSessionCompatibleCategoryOptions(lastCall.args.category)

C5_HardErrorLeavesSessionUnchanged ==
  [][ (lastCall'.called /\ lastCall'.error # NoError)
      => /\ audioSession' = audioSession
         /\ lastCall'.error \in ValidationErrors => lastCall'.nativeCalls = <<>>
         /\ lastCall'.error \notin ValidationErrors =>
              /\ lastCall'.error = "INVALID_CONFIGURATION"
              /\ Len(lastCall'.nativeCalls) = 1
              /\ lastCall'.nativeCalls[1].fn = "setCategory" ]_vars

\* C5 witness: a rejected setCategory over a session configured earlier, which stays
C5_Witness ==
  /\ lastCall.called
  /\ lastCall.error = "INVALID_CONFIGURATION"
  /\ lastCall.args.prefersNoInterruptionFromSystemAlerts
  /\ audioSession = SessionConfiguredEarlier

(***************************************************************************)
(* C6.  Warnings and hard errors in one call.                              *)
(***************************************************************************)
\* C6 as stated: if the warning callback is invoked during a call, the call completes
\* successfully; a call that ends in a hard error delivers no warning.  Does not hold:
\* the option loop delivers OPTION_NOT_APPLIED as it goes, and a later option or the
\* native call can still fail.
C6_WarningImpliesSuccess ==
  lastCall.warnings # <<>> => lastCall.error = NoError

\* C6 amended: a call that ends in a hard error delivers no preference warning; the
\* warnings it delivers are OPTION_NOT_APPLIED warnings, at most one per occurrence of
\* AllowBluetoothA2DP in the list, and none when the category or the mode was rejected.
C6_HardErrorDeliversOnlyOptionWarnings ==
  (lastCall.called /\ lastCall.error # NoError)
  => /\ \A w \in Range(lastCall.warnings) : w.name = "OPTION_NOT_APPLIED"
     /\ Len(lastCall.warnings) <= occurrences("AllowBluetoothA2DP")
     /\ lastCall.error \in {"INVALID_CATEGORY", "INVALID_MODE"} => lastCall.warnings = <<>>

\* C6 witness: a warning delivered, then the call fails on a later option
C6_Witness ==
  /\ lastCall.called
  /\ lastCall.error = "UNSUPPORTED_CATEGORY_OPTION"
  /\ lastCall.warnings # <<>>

(***************************************************************************)
(* C7.  The preference stage after a successful setCategory.               *)
(***************************************************************************)
\* C7 as stated: for every subset of the four preference setters that fail or are
\* unsupported on the running OS version the call still returns successfully, every
\* later preference is still attempted, and each failed or unsupported preference
\* produces exactly one warning.  Does not hold: echo-cancelled input is neither
\* attempted nor warned about unless it was requested.
C7_EachFailedPreferenceWarnsOnce ==
  setCategorySucceeded
  => /\ lastCall.error = NoError
     /\ Len(callsTo("setPrefersNoInterruptionsFromSystemAlerts")) = 1
     /\ Len(callsTo("setAllowHapticsAndSystemSoundsDuringRecording")) = 1
     /\ osVersion >= iOS17_0 => Len(callsTo("setPrefersInterruptionOnRouteDisconnect")) = 1
     /\ Threw("setPrefersNoInterruptionsFromSystemAlerts")
          => Len(warningsNamed("PREFERENCE_FAILURE_NO_INTERRUPTIONS")) = 1
     /\ Threw("setAllowHapticsAndSystemSoundsDuringRecording")
          => Len(warningsNamed("PREFERENCE_FAILURE_HAPTICS")) = 1
     /\ (osVersion < iOS17_0 \/ Threw("setPrefersInterruptionOnRouteDisconnect"))
          => Len(warningsNamed("PREFERENCE_FAILURE_ROUTE_DISCONNECT")) = 1
     /\ (osVersion < iOS18_2 \/ Threw("setPrefersEchoCancelledInput"))
          => Len(warningsNamed("PREFERENCE_WARNING_ECHO_CANCELLATION")) = 1

\* C7 amended: the call returns successfully; the no-interruptions and haptics setters
\* are each called once and the route-disconnect setter once where the OS has it,
\* whatever the earlier ones did; each of the three yields one warning if it threw or
\* the OS lacks it and none otherwise; echo-cancelled input is touched only when
\* requested, and then yields no warning if its setter ran without throwing and
\* exactly one otherwise.
C7_PreferencesAreIndependent ==
  setCategorySucceeded
  => /\ lastCall.error = NoError
     /\ Len(callsTo("setPrefersNoInterruptionsFromSystemAlerts")) = 1
     /\ Len(warningsNamed("PREFERENCE_FAILURE_NO_INTERRUPTIONS")) =
          (IF Threw("setPrefersNoInterruptionsFromSystemAlerts") THEN 1 ELSE 0)
     /\ Len(callsTo("setAllowHapticsAndSystemSoundsDuringRecording")) = 1
     /\ Len(warningsNamed("PREFERENCE_FAILURE_HAPTICS")) =
          (IF Threw("setAllowHapticsAndSystemSoundsDuringRecording") THEN 1 ELSE 0)
     /\ IF osVersion >= iOS17_0
        THEN /\ Len(callsTo("setPrefersInterruptionOnRouteDisconnect")) = 1
             /\ Len(warningsNamed("PREFERENCE_FAILURE_ROUTE_DISCONNECT")) =
                  (IF Threw("setPrefersInterruptionOnRouteDisconnect") THEN 1 ELSE 0)
        ELSE /\ callsTo("setPrefersInterruptionOnRouteDisconnect") = <<>>
             /\ Len(warningsNamed("PREFERENCE_FAILURE_ROUTE_DISCONNECT")) = 1
     /\ IF lastCall.args.prefersEchoCancelledInput
        THEN /\ osVersion < iOS18_2 => callsTo("setPrefersEchoCancelledInput") = <<>>
             /\ Len(callsTo("setPrefersEchoCancelledInput")) <= 1
             /\ Len(warningsNamed("PREFERENCE_WARNING_ECHO_CANCELLATION")) =
                  (IF /\ Len(callsTo("setPrefersEchoCancelledInput")) = 1
                      /\ ~Threw("setPrefersEchoCancelledInput")
                   THEN 0 ELSE 1)
        ELSE /\ callsTo("setPrefersEchoCancelledInput") = <<>>
             /\ callsTo("isEchoCancelledInputAvailable") = <<>>
             /\ warningsNamed("PREFERENCE_WARNING_ECHO_CANCELLATION") = <<>>

\* C7 witness: the first two setters throw, the third is still called, the echo setter
\* is still called after all three threw
C7_Witness ==
  /\ setCategorySucceeded
  /\ lastCall.error = NoError
  /\ Threw("setPrefersNoInterruptionsFromSystemAlerts")
  /\ Threw("setAllowHapticsAndSystemSoundsDuringRecording")
  /\ Threw("setPrefersInterruptionOnRouteDisconnect")
  /\ Len(callsTo("setPrefersEchoCancelledInput")) = 1

(***************************************************************************)
(* C8.  The gates of prefersEchoCancelledInput = true.                     *)
(***************************************************************************)
EchoRequested == setCategorySucceeded /\ lastCall.args.prefersEchoCancelledInput

\* the gates known to be unmet: the hardware gate is known only once it was read
unmetGates ==
  (IF osVersion < iOS18_2 THEN {"os"} ELSE {})
    \cup (IF lastCall.args.category # "PlayAndRecord" THEN {"category"} ELSE {})
    \cup (IF lastCall.args.mode # "Default" THEN {"mode"} ELSE {})
    \cup (IF /\ callsTo("isEchoCancelledInputAvailable") # <<>>
             /\ ~callsTo("isEchoCancelledInputAvailable")[1].arg.value
          THEN {"hardware"} ELSE {})

\* the message of the first unmet gate, in the order the code tests them
firstUnmetGateMessage ==
  IF "os" \in unmetGates
  THEN "Setting prefersEchoCancelledInput requires iOS 18.2 or later"
  ELSE IF "category" \in unmetGates
  THEN "Setting prefersEchoCancelledInput requires category PlayAndRecord"
  ELSE IF "mode" \in unmetGates
  THEN "Setting prefersEchoCancelledInput requires mode Default"
  ELSE "Setting prefersEchoCancelledInput requires hardware support"

\* C8 as stated: the setter is invoked only if all gates hold, every unmet gate yields
\* a warning distinct from the warnings of the other gates, and no unmet gate raises a
\* hard error.  Does not hold: only the first unmet gate is reported.
C8_EveryUnmetGateWarns ==
  EchoRequested
  => /\ lastCall.error = NoError
     /\ callsTo("setPrefersEchoCancelledInput") # <<>> => unmetGates = {}
     /\ Cardinality(Range(warningsNamed("PREFERENCE_WARNING_ECHO_CANCELLATION")))
          >= Cardinality(unmetGates)

\* C8 amended: the setter is invoked only if all gates hold; when some gate is unmet
\* exactly one warning is delivered, that of the first unmet gate in the order OS
\* version, category, mode, hardware, whose message differs from the other gates';
\* when all hold the setter is called once and warns only if it throws; no hard error.
C8_FirstUnmetGateWarns ==
  EchoRequested
  => /\ lastCall.error = NoError
     /\ IF unmetGates # {}
        THEN /\ callsTo("setPrefersEchoCancelledInput") = <<>>
             /\ warningsNamed("PREFERENCE_WARNING_ECHO_CANCELLATION") =
                  <<AudioSessionWarning("PREFERENCE_WARNING_ECHO_CANCELLATION",
                                        firstUnmetGateMessage)>>
        ELSE /\ Len(callsTo("setPrefersEchoCancelledInput")) = 1
             /\ warningsNamed("PREFERENCE_WARNING_ECHO_CANCELLATION") =
                  (IF Threw("setPrefersEchoCancelledInput")
                   THEN <<AudioSessionWarning("PREFERENCE_WARNING_ECHO_CANCELLATION",
                                              "Failed to set prefersEchoCancelledInput")>>
                   ELSE <<>>)
     /\ audioSession.prefersEchoCancelledInput =>
          /\ unmetGates = {}
          /\ ~Threw("setPrefersEchoCancelledInput")

\* C8 witness: two gates unmet on an OS that has the setter, one warning delivered
C8_Witness ==
  /\ EchoRequested
  /\ osVersion >= iOS18_2
  /\ {"category", "mode"} \subseteq unmetGates
  /\ Len(warningsNamed("PREFERENCE_WARNING_ECHO_CANCELLATION")) = 1

(***************************************************************************)
(* C9.  A configuration whose options are all legal and explicitly         *)
(* settable, with no preference requested (in particular PlayAndRecord,    *)
(* VideoRecording, [AllowBluetoothA2DP] with the defaults of               *)
(* configureAudio), succeeds and the warning callback is never invoked, on *)
(* every OS version.  Stated for calls in which no native call throws.     *)
(* Does not hold: below iOS 17 the route-disconnect preference warns       *)
(* although it was not requested.                                          *)
(***************************************************************************)
C9_NoPreferenceNoWarning ==
  ( /\ CompatibleConfiguration
    /\ NoPreferenceRequested
    /\ \A c \in Range(lastCall.nativeCalls) : ~c.threw )
  => /\ lastCall.error = NoError
     /\ lastCall.warnings = <<>>

(***************************************************************************)
(* C10.  In every reachable state, on each platform and for each of the    *)
(* three channels, the OS-level observer of the channel is registered if   *)
(* and only if the channel's subscriber list is non-empty.  Does not hold: *)
(* iOS registers the interruption and route-change observers at            *)
(* construction, and Android never releases the audio-focus listener.      *)
(***************************************************************************)
channelObserver(channel) ==
  IF platform = "ios"
  THEN CASE channel = "audioInterruption" -> "interruptionNotification"
         [] channel = "routeChange"       -> "routeChangeNotification"
         [] channel = "volume"            -> "outputVolume"
  ELSE CASE channel = "audioInterruption" -> "focusCallback"
         [] channel = "routeChange"       -> "deviceCallback"
         [] channel = "volume"            -> "volumeReceiver"

channelListeners(channel) ==
  CASE channel = "audioInterruption" -> interruptionListeners
    [] channel = "routeChange"       -> routeChangeListeners
    [] channel = "volume"            -> volumeListeners

C10_ObserverIffSubscribers ==
  \A channel \in {"audioInterruption", "routeChange", "volume"} :
    channelObserver(channel) \in osObservers <=> channelListeners(channel) # <<>>

(***************************************************************************)
(* C11.  On each platform and for each channel, the OS-level observer is   *)
(* attached in a step exactly when the step is the add that makes the      *)
(* subscriber list non-empty, and detached exactly when the step is the    *)
(* removal that empties it; every other add or removal neither attaches    *)
(* nor detaches.  Does not hold: the iOS interruption and route-change     *)
(* observers are attached at construction and never detached, and the      *)
(* Android audio-focus listener is never detached.                         *)
(***************************************************************************)
C11_AttachOnFirstAddDetachOnLastRemoval ==
  [][\A channel \in {"audioInterruption", "routeChange", "volume"} :
       LET attached == channelObserver(channel) \in osObservers
           wasEmpty == channelListeners(channel) = <<>>
       IN  /\ (~attached /\ attached') <=> (wasEmpty /\ ~wasEmpty')
           /\ (attached /\ ~attached') <=> (~wasEmpty /\ wasEmpty')]_vars

(***************************************************************************)
(* C12.  A single OS notification for a channel invokes every subscriber   *)
(* of that channel, in registration order, each exactly once and all with  *)
(* an equal event value, and invokes no subscriber of the other channels.  *)
(* Does not hold on iOS: handleInterruption returns before the fan-out     *)
(* when the notification carries no interruption reason, which is the case *)
(* for the notification that ends an interruption.                         *)
(***************************************************************************)
C12_NotificationInvokesSubscribersInOrder ==
  lastOp.op = "notify" =>
    LET list == channelListeners(lastOp.channel)
        invoked == lastOp.invoked
    IN  /\ Len(invoked) = Len(list)
        /\ \A i \in DOMAIN invoked :
             /\ invoked[i].id = list[i].id
             /\ invoked[i].callback = list[i].callback
             /\ invoked[i].event = invoked[1].event

(***************************************************************************)
(* C13.  Every add, on any of the three channels, returns an id strictly   *)
(* greater than every id returned earlier by any add.  nextListenerId is   *)
(* the strict upper bound of the ids returned so far: an add returns an id *)
(* at or above it and leaves it above the returned id, and no step lowers  *)
(* it, so removed ids are never handed out again.                          *)
(***************************************************************************)
listedIds ==
  {l.id : l \in Range(interruptionListeners) \cup Range(routeChangeListeners)
                \cup Range(volumeListeners)}

C13_IdsStrictlyIncrease ==
  [][/\ nextListenerId' >= nextListenerId
     /\ lastOp'.op = "addListener" =>
          /\ lastOp'.id >= nextListenerId
          /\ nextListenerId' > lastOp'.id
          /\ \A id \in listedIds : lastOp'.id > id]_vars

\* the third add returns 2 on a channel other than the first add's, after id 1 was removed
C13_Witness ==
  /\ lastOp.op = "addListener"
  /\ lastOp.id = 2
  /\ lastOp.channel = "volume"
  /\ 0 \in {l.id : l \in Range(interruptionListeners)}
  /\ 1 \notin listedIds

(***************************************************************************)
(* C14.  The function returned by addListener(type, callback) calls the    *)
(* remove function of the channel named by type with the id the add        *)
(* returned.  Such a call deletes exactly the listener with that id from   *)
(* that channel and keeps every other listener, on every channel, in       *)
(* place; when the id is no longer registered (a second call) no list, no  *)
(* OS-level observer and no session state changes; and a notification      *)
(* never invokes a listener that is not registered at that moment, so a    *)
(* removed listener is never invoked again.                                *)
(***************************************************************************)
Channels == {"audioInterruption", "routeChange", "volume"}

idsOn(channel) == {l.id : l \in Range(channelListeners(channel))}

C15_VolumeListenerActivatesAmbientSession ==
  [][(lastOp'.op = "addListener" /\ lastOp'.channel = "volume" /\ platform = "ios") =>
       IF ~isSessionActive
       THEN /\ audioSession'.category = "ambient"
            /\ sessionActive'
            /\ isSessionActive'
       ELSE UNCHANGED <<audioSession, sessionActive, isSessionActive>>]_vars

(***************************************************************************)
(* C16.  On iOS, when the app returns to the foreground with at least one  *)
(* volume listener registered the session is re-activated: the handler     *)
(* calls setActive(true), or the session is active already, and after a    *)
(* successful call isActive() is true; with no volume listener the handler *)
(* makes no activation call.  Does not hold: a volume listener added in    *)
(* the background while setActive(true) fails leaves the session recorded  *)
(* active though it is not, and the handler then makes no call.            *)
(***************************************************************************)
C16_ForegroundReactivatesForVolumeListeners ==
  [][lastOp'.op = "willEnterForeground" =>
       IF volumeListeners # <<>>
       THEN /\ setActiveTrue(TRUE) \in Range(lastOp'.nativeCalls)
               \/ setActiveTrue(FALSE) \in Range(lastOp'.nativeCalls)
               \/ sessionActive
            /\ setActiveTrue(FALSE) \in Range(lastOp'.nativeCalls)
                 => (sessionActive' /\ isSessionActive')
       ELSE lastOp'.nativeCalls = <<>>]_vars

(***************************************************************************)
(* C17.  On iOS, activate() called while the session is recorded active    *)
(* makes no native call, delivers exactly one warning and resolves: the    *)
(* warning is MULTIPLE_ACTIVATION_WARNING when no volume listener is       *)
(* registered and SESSION_ALREADY_ACTIVE_WITH_VOLUME_LISTENER otherwise.   *)
(* deactivate() without the fallback called while the session is recorded  *)
(* inactive makes no native call, delivers exactly one                     *)
(* MULTIPLE_DEACTIVATION_WARNING and resolves.                             *)
(***************************************************************************)
C17_RedundantCallWarnsOnceWithoutNativeCall ==
  [][/\ (lastOp'.op = "activate" /\ isSessionActive) =>
          /\ lastOp'.nativeCalls = <<>>
          /\ lastOp'.outcome = "resolved"
          /\ lastOp'.warnings = IF volumeListeners = <<>>
                                THEN <<"MULTIPLE_ACTIVATION_WARNING">>
                                ELSE <<"SESSION_ALREADY_ACTIVE_WITH_VOLUME_LISTENER">>
          /\ UNCHANGED <<isSessionActive, sessionActive, audioSession>>
     /\ (lastOp'.op = "deactivate" /\ ~lastOp'.fallback /\ ~isSessionActive) =>
          /\ lastOp'.nativeCalls = <<>>
          /\ lastOp'.outcome = "resolved"
          /\ lastOp'.warnings = <<"MULTIPLE_DEACTIVATION_WARNING">>
          /\ UNCHANGED <<isSessionActive, sessionActive, audioSession>>]_vars

\* activate() on a session recorded active with a volume listener registered
C17_Witness ==
  /\ lastOp.op = "activate"
  /\ lastOp.warnings = <<"SESSION_ALREADY_ACTIVE_WITH_VOLUME_LISTENER">>
  /\ volumeListeners # <<>>
  /\ isSessionActive

(***************************************************************************)
(* C18.  Every promise returned by activate or deactivate settles once,    *)
(* resolved or rejected, and it is rejected only when a native call threw. *)
(* When the native setActive call throws, the promise is rejected with     *)
(* ACTIVATION_FAILURE (activate) or DEACTIVATION_FAILURE (deactivate),     *)
(* that call is the only native call of the operation, no warning is       *)
(* delivered and isSessionActive keeps the value it had before the call.   *)
(***************************************************************************)
C18_FailedSetActiveRejectsOnce ==
  [][lastOp'.op \in {"activate", "deactivate"} =>
       /\ lastOp'.outcome \in {"resolved", "rejected"}
       /\ lastOp'.outcome = "rejected" <=> lastOp'.error # NoError
       /\ lastOp'.outcome = "rejected" <=> \E c \in Range(lastOp'.nativeCalls) : c.threw
       /\ \A c \in Range(lastOp'.nativeCalls) :
            (c.fn = "setActive" /\ c.threw) =>
              /\ lastOp'.outcome = "rejected"
              /\ lastOp'.error = IF lastOp'.op = "activate" THEN "ACTIVATION_FAILURE"
                                 ELSE "DEACTIVATION_FAILURE"
              /\ Len(lastOp'.nativeCalls) = 1
              /\ lastOp'.warnings = <<>>
              /\ UNCHANGED <<isSessionActive, sessionActive>>]_vars

\* a deactivation whose setActive(false) threw: rejected, the session still recorded active
C18_Witness ==
  /\ lastOp.op = "deactivate"
  /\ lastOp.outcome = "rejected"
  /\ lastOp.error = "DEACTIVATION_FAILURE"
  /\ lastOp.nativeCalls = <<setActiveFalse(TRUE, TRUE)>>
  /\ isSessionActive

(***************************************************************************)
(* C19.  On iOS, deactivate with                                           *)
(* fallbackToAmbientCategoryAndLeaveActiveForVolumeListener = true never   *)
(* calls setActive: its one native call is setCategory(Ambient, mode       *)
(* Default, option MixWithOthers).  Activation, isSessionActive, the       *)
(* volume listeners and the volume observer are left as they were and no   *)
(* warning is delivered.  When the set-category call succeeds the session  *)
(* has category Ambient, mode Default and the single option MixWithOthers  *)
(* and the promise resolves; when it throws the session keeps its          *)
(* category and the promise is rejected with DEACTIVATION_ERROR.           *)
(***************************************************************************)
fallbackFrame ==
  /\ \A c \in Range(lastOp'.nativeCalls) : c.fn # "setActive"
  /\ lastOp'.warnings = <<>>
  /\ UNCHANGED <<isSessionActive, sessionActive, volumeListeners, osObservers>>

isAmbientMixWithOthers(session) ==
  /\ session.category = "ambient"
  /\ session.mode = "default"
  /\ session.categoryOptions = {"mixWithOthers"}

C19_FallbackKeepsSessionAndSetsAmbientUnlessItThrows ==
  [][(lastOp'.op = "deactivate" /\ lastOp'.fallback) =>
       /\ fallbackFrame
       /\ IF lastOp'.nativeCalls = <<setCategoryAmbient(FALSE)>>
          THEN /\ isAmbientMixWithOthers(audioSession')
               /\ lastOp'.outcome = "resolved"
          ELSE /\ lastOp'.nativeCalls = <<setCategoryAmbient(TRUE)>>
               /\ UNCHANGED audioSession
               /\ lastOp'.outcome = "rejected"
               /\ lastOp'.error = "DEACTIVATION_ERROR"]_vars

\* C19 as stated: the fallback always leaves the session with category Ambient, mode
\* Default and option MixWithOthers.  Violated when the set-category call throws.
C19_FallbackAlwaysSetsAmbient ==
  [][(lastOp'.op = "deactivate" /\ lastOp'.fallback) =>
       /\ fallbackFrame
       /\ isAmbientMixWithOthers(audioSession')]_vars

\* a resolved fallback on an active session with a volume listener and its observer
C19_Witness ==
  /\ lastOp.op = "deactivate"
  /\ lastOp.fallback
  /\ lastOp.outcome = "resolved"
  /\ isAmbientMixWithOthers(audioSession)
  /\ isSessionActive
  /\ sessionActive
  /\ volumeListeners # <<>>
  /\ "outputVolume" \in osObservers

(***************************************************************************)
(* C20.  For every number v, setSystemVolume(v, options) hands the native  *)
(* layer the setpoint 0 when v < 0, 1 when v > 1 and v otherwise, and the  *)
(* setpoint handed over always lies in [0, 1].  Does not hold: NaN is a    *)
(* number, is neither below 0 nor above 1, and is handed over unchanged.   *)
(***************************************************************************)
C20_SetpointLiesInUnitRange ==
  (lastOp.op = "setSystemVolume" /\ lastOp.value.kind # "string") =>
    /\ lastOp.setpoint = IF lessThan(lastOp.value, 0) THEN Finite(0)
                         ELSE IF greaterThan(lastOp.value, 10) THEN Finite(10)
                         ELSE lastOp.value
    /\ lastOp.setpoint.kind = "finite"
    /\ lastOp.setpoint.tenths \in 0..10

(***************************************************************************)
(* C23.  configureAudioSession runs its stages in a fixed order: category  *)
(* token, mode token, each option in list order, the native set-category   *)
(* call, then the preference setters.  The error reported is that of the   *)
(* earliest failing stage: INVALID_CATEGORY before INVALID_MODE before the *)
(* error of the first failing option before INVALID_CONFIGURATION.  The    *)
(* native set-category call is made only when every stage before it        *)
(* passed, and a preference setter is called only after a set-category     *)
(* call that did not throw.                                                *)
(***************************************************************************)
categoryStageFails == resolveCategory(lastCall.args.category).error # NoError

modeStageFails == resolveMode(lastCall.args.mode).error # NoError

optionStageError(i) ==
  optionCase(resolveCategory(lastCall.args.category).value, lastCall.args.categoryOptions[i],
             osVersion).error

failingOptions == {i \in DOMAIN lastCall.args.categoryOptions : optionStageError(i) # NoError}

firstFailingOption == CHOOSE i \in failingOptions : \A j \in failingOptions : i <= j

C23_EarliestFailingStageReports ==
  lastCall.called =>
    LET calls == lastCall.nativeCalls
        validated == ~categoryStageFails /\ ~modeStageFails /\ failingOptions = {}
    IN  /\ categoryStageFails => lastCall.error = "INVALID_CATEGORY"
        /\ (~categoryStageFails /\ modeStageFails) => lastCall.error = "INVALID_MODE"
        /\ (~categoryStageFails /\ ~modeStageFails /\ failingOptions # {}) =>
             lastCall.error = optionStageError(firstFailingOption)
        /\ ~validated => calls = <<>>
        /\ validated => (calls # <<>> /\ calls[1].fn = "setCategory")
        /\ lastCall.error = "INVALID_CONFIGURATION" <=> (validated /\ calls[1].threw)
        /\ \A i \in DOMAIN calls :
             i > 1 => (calls[i].fn # "setCategory" /\ ~calls[1].threw)

\* a call whose category, mode and an option are all invalid reports the category
C23_Witness ==
  /\ lastCall.called
  /\ lastCall.args.category = "Bogus"
  /\ lastCall.args.mode = "Bogus"
  /\ lastCall.args.categoryOptions = <<"MixWithOthers", "Bogus">>
  /\ lastCall.error = "INVALID_CATEGORY"

(***************************************************************************)
(* C24.  For every category and every mode token the mode switch           *)
(* recognizes, legal for the category or not (Ambient with VoiceChat, for  *)
(* one), the call raises no validation error on account of the mode: it    *)
(* does not fail with INVALID_MODE, and when its options validate it makes *)
(* the native set-category call with that category and that mode and can   *)
(* fail only as INVALID_CONFIGURATION, when that call throws.              *)
(***************************************************************************)
C24_ModeIsLeftToTheNativeCall ==
  (/\ lastCall.called
   /\ lastCall.args.category \in AudioSessionCategory
   /\ ~modeStageFails) =>
    /\ lastCall.error # "INVALID_MODE"
    /\ failingOptions = {} =>
         /\ Len(callsTo("setCategory")) = 1
         /\ readableCategory(callsTo("setCategory")[1].arg.category) = lastCall.args.category
         /\ readableMode(callsTo("setCategory")[1].arg.mode) = lastCall.args.mode
         /\ lastCall.error # NoError =>
              (lastCall.error = "INVALID_CONFIGURATION" /\ callsTo("setCategory")[1].threw)

\* Ambient with VoiceChat, outside the legal-mode table, reached the native call, which
\* rejected it
C24_Witness ==
  /\ lastCall.called
  /\ lastCall.args.category = "Ambient"
  /\ lastCall.args.mode = "VoiceChat"
  /\ "VoiceChat" \notin AudioSessionCompatibleModes("Ambient")
  /\ Threw("setCategory")
  /\ lastCall.error = "INVALID_CONFIGURATION"


(***************************************************************************)
(* C21: on iOS forceOutputToSpeaker never changes the session category;    *)
(* when the category is not PlayAndRecord it makes no override call,       *)
(* delivers exactly one INCOMPATIBLE_CATEGORY warning and returns without  *)
(* error; when the category is PlayAndRecord it makes the override call,   *)
(* and a rejected override is the hard error SPEAKER_OVERRIDE_FAILURE and  *)
(* no warning.                                                             *)
(***************************************************************************)
C21_ForceOutputToSpeakerKeepsCategory ==
  [][lastOp'.op = "forceOutputToSpeaker" =>
       /\ audioSession'.category = audioSession.category
       /\ IF audioSession.category # "playAndRecord"
          THEN /\ lastOp'.nativeCalls = <<>>
               /\ lastOp'.warnings = <<"INCOMPATIBLE_CATEGORY">>
               /\ lastOp'.error = NoError
               /\ lastOp'.outcome = "returned"
          ELSE /\ Len(lastOp'.nativeCalls) = 1
               /\ lastOp'.nativeCalls[1].fn = "overrideOutputAudioPort"
               /\ lastOp'.nativeCalls[1].arg = "speaker"
               /\ lastOp'.warnings = <<>>
               /\ IF lastOp'.nativeCalls[1].threw
                  THEN lastOp'.error = "SPEAKER_OVERRIDE_FAILURE" /\ lastOp'.outcome = "threw"
                  ELSE lastOp'.error = NoError /\ outputOverride' = "speaker"]_vars

\* a rejected override under PlayAndRecord surfaced as the hard error
C21_Witness ==
  /\ lastOp.op = "forceOutputToSpeaker"
  /\ audioSession.category = "playAndRecord"
  /\ lastOp.error = "SPEAKER_OVERRIDE_FAILURE"
  /\ lastOp.nativeCalls = <<overrideOutputAudioPort("speaker", TRUE)>>


(***************************************************************************)
(* C26: on iOS, after any sequential run of activate, deactivate,          *)
(* addVolumeListener, removeVolumeListener, background/foreground          *)
(* transitions and OS interruptions, the flag isActive() returns equals    *)
(* the real activation state of the OS session, and a deactivate() without *)
(* the fallback flag issues the native deactivation whenever the OS        *)
(* session is active.                                                      *)
(***************************************************************************)
isActive == isSessionActive

C26_IsActiveEqualsOSActivation ==
  [][/\ isActive' = sessionActive'
     /\ (/\ lastOp'.op = "deactivate"
         /\ ~lastOp'.fallback
         /\ sessionActive) =>
          \E call \in Range(lastOp'.nativeCalls) :
            call.fn = "setActive" /\ call.arg # "true"]_vars


(***************************************************************************)
(* C27: when a component using useVolume or useIsHeadphonesConnected       *)
(* unmounts, the listener the hook registered on mount is removed from its *)
(* channel; the listeners registered by the hooks are as many as the       *)
(* mounted hook instances, and the volume channel holds its OS observer    *)
(* only while a listener remains.                                          *)
(***************************************************************************)
C27_UnmountRemovesTheHookListener ==
  /\ lastOp.op = "unmount" => lastOp.id \notin idsOn(lastOp.channel)
  /\ \A hook \in Hooks : Len(channelListeners(hookChannel(hook))) = Len(mounted[hook])
  /\ mounted["useVolume"] = <<>> => channelObserver("volume") \notin osObservers


(***************************************************************************)
(* C22: on Android, right after configureAudio({android: ...}) with values *)
(* of the exported AudioFocusGainTypes, AudioUsages and AudioContentTypes, *)
(* getAudioStatus returns a status whose focusGain, usage, contentType,    *)
(* willPauseWhenDucked and acceptsDelayedFocusGain equal the values        *)
(* configured.                                                             *)
(***************************************************************************)
C22_StatusReturnsConfiguredValues ==
  (/\ lastOp.op = "configureAudioManager"
   /\ lastOp.args.focusGain \in AudioFocusGainTypes
   /\ lastOp.args.usage \in AudioUsages
   /\ lastOp.args.contentType \in AudioContentTypes) =>
    getAudioManagerStatusAndroid = lastOp.args

(***************************************************************************)
(* C29: on Android, right after activate() resolves isActive() returns     *)
(* TRUE, and right after deactivate() resolves isActive() returns FALSE.   *)
(***************************************************************************)
C29_IsActiveFollowsActivateAndDeactivate ==
  /\ (lastOp.op = "activate" /\ lastOp.outcome = "resolved") => isActiveAndroid
  /\ (lastOp.op = "deactivate" /\ lastOp.outcome = "resolved") => ~isActiveAndroid

(***************************************************************************)
(* C30: on Android every activate() requests audio focus with the focus    *)
(* gain type, usage, content type, willPauseWhenDucked and                 *)
(* acceptsDelayedFocusGain of the most recent configureAudioManager call   *)
(* (the fields as they stand when activate() runs); the requestAudioFocus  *)
(* overload used below API 26 carries the focus gain type only.            *)
(***************************************************************************)
C30_ActivateRequestsTheCurrentConfiguration ==
  lastOp.op = "activate" =>
    IF sdkInt >= VERSION_CODES_O
    THEN lastOp.request = buildFocusRequest
    ELSE lastOp.request.focusGain = focusGainType


(***************************************************************************)
(* C28: fan-out works on a snapshot of the subscriber list: when a         *)
(* callback invoked during the fan-out adds or removes a subscriber of the *)
(* same channel, the callbacks invoked for that notification are exactly   *)
(* the subscribers registered when the notification arrived, in            *)
(* registration order, each once, and the fan-out completes without error. *)
(***************************************************************************)
C28_FanOutInvokesTheSubscribersAtArrival ==
  [][(fanOut # NoFanOut /\ fanOut' = NoFanOut) =>
       /\ lastOp'.error = NoError
       /\ lastOp'.invoked = forEach(fanOut.arrived, fanOut.event)]_vars


(***************************************************************************)
(* C25: on iOS, under every interleaving of the steps of concurrent        *)
(* activate() and deactivate() bodies with each other, with                *)
(* addVolumeListener and with the background/foreground handlers, once all *)
(* bodies have settled isSessionActive equals the activation state of the  *)
(* OS session, which the last native setActive call set, and no two        *)
(* activate() bodies in flight have both gone on to the native activation. *)
(***************************************************************************)
activating(i) == promises[i].op = "activate" /\ promises[i].pc \in {"call", "write"}

C25_SettledFlagMatchesLastSetActive ==
  /\ promises = <<>> => isSessionActive = sessionActive
  /\ \A i, j \in DOMAIN promises : (activating(i) /\ activating(j)) => i = j

=====
